---- MODULE Spec2Model ----
(***************************************************************************)
(* Fireboard synchronisation engine of the retep bot.                      *)
(*                                                                         *)
(* Modelled from the refactored engine: Fireboard (reaction passes, the    *)
(* processingMessages lock, handleMessageDelete), FireboardMessageManager  *)
(* (addToFireboard, updateFireboardEntry, removeFireboardEntry,            *)
(* refreshAllEntries), FireboardDatabase (the entry store over the         *)
(* FireboardEntry table), ValidReactionCalculator and the manual           *)
(* "reactions add" command.                                                *)
(*                                                                         *)
(* Every asynchronous handler is a task; one action is the code a task     *)
(* runs between two awaits, so actions of different tasks interleave       *)
(* exactly at the suspension points of the JavaScript.                     *)
(***************************************************************************)
EXTENDS Integers, Sequences, FiniteSets, TLC

(***************************************************************************)
(* Universe of the model.                                                  *)
(***************************************************************************)
Msgs == {"m1", "m2"}
Users == {"a", "b", "c"}
Emojis == {"up", "fire", "x"}
Tasks == {"t1", "t2"}

\* config.validReactions, in declared order ("x" stands for any emoji outside it)
validReactions == <<"up", "fire">>

\* fireboardSettings as the engine reads it (threshold, excludeAuthorReactions)
settings == [threshold |-> 1, excludeAuthorReactions |-> TRUE]

\* message.author.id of each source message
AuthorOf(m) == IF m = "m1" THEN "a" ELSE "b"

Null == [none |-> TRUE]

Range(s) == {s[i] : i \in DOMAIN s}

(***************************************************************************)
(* The platform's reaction cache of one message: message.reactions.cache,  *)
(* a Map from emoji to reaction in the order the emoji first appeared,     *)
(* each reaction with the set of users that reacted (reaction.users).      *)
(***************************************************************************)
CacheEmojis(cache) == {cache[i].emoji : i \in DOMAIN cache}

UsersOf(cache, e) ==
    IF e \in CacheEmojis(cache)
    THEN (CHOOSE r \in Range(cache) : r.emoji = e).users
    ELSE {}

AddReaction(cache, u, e) ==
    IF e \in CacheEmojis(cache)
    THEN [i \in DOMAIN cache |->
             IF cache[i].emoji = e
             THEN [emoji |-> e, users |-> cache[i].users \cup {u}]
             ELSE cache[i]]
    ELSE Append(cache, [emoji |-> e, users |-> {u}])

RemoveReaction(cache, u, e) ==
    LET cut == [i \in DOMAIN cache |->
                   IF cache[i].emoji = e
                   THEN [emoji |-> e, users |-> cache[i].users \ {u}]
                   ELSE cache[i]]
    IN SelectSeq(cut, LAMBDA r : r.users # {})

(***************************************************************************)
(* ValidReactionCalculator                                                 *)
(***************************************************************************)
IsValidEmoji(validReactionEmojis, e) == e \in Range(validReactionEmojis)

\* a first pass that walks the configured emoji in their declared order
DeclaredOrderData(cache, validReactionEmojis) ==
    SelectSeq([i \in DOMAIN validReactionEmojis |->
                  [emoji |-> validReactionEmojis[i],
                   users |-> UsersOf(cache, validReactionEmojis[i])]],
              LAMBDA r : r.users # {})

\* first pass: the reactions of the message whose emoji is valid, in cache order
ValidReactionData(cache, validReactionEmojis) ==
    SelectSeq(cache, LAMBDA r : IsValidEmoji(validReactionEmojis, r.emoji))

\* the users of one reaction that the second pass counts, given the map so far
NoDedupCounted(users, userReactionMap, skipped) == users \ skipped

\* userReactionMap is the set of its entries [user, emoji]
MapHas(userReactionMap, u) == \E p \in userReactionMap : p.user = u

CountedUsers(users, userReactionMap, skipped) ==
    {u \in users : u \notin skipped /\ ~MapHas(userReactionMap, u)}

\* the author is skipped before the dedup check when excludeAuthor is set
NoSkip(excludeAuthor, author) == {}

SkippedUsers(excludeAuthor, author) == IF excludeAuthor THEN {author} ELSE {}

RECURSIVE SecondPass(_, _, _, _, _)
SecondPass(data, i, userReactionMap, messageValidReactions, skipped) ==
    IF i > Len(data)
    THEN [list |-> messageValidReactions, map |-> userReactionMap]
    ELSE LET rd == data[i]
             counted == CountedUsers(rd.users, userReactionMap, skipped)
             newMap == userReactionMap \cup
                       {[user |-> u, emoji |-> rd.emoji] :
                           u \in {c \in counted : ~MapHas(userReactionMap, c)}}
         IN SecondPass(data, i + 1, newMap,
                       Append(messageValidReactions,
                              [emoji |-> rd.emoji, count |-> Cardinality(counted)]),
                       skipped)

\* the run of calculateValidReactions: the returned list and the final userReactionMap
CalculationRun(cache, validReactionEmojis, excludeAuthor, author) ==
    SecondPass(ValidReactionData(cache, validReactionEmojis), 1, {}, <<>>,
               SkippedUsers(excludeAuthor, author))

calculateValidReactions(cache, validReactionEmojis, excludeAuthor, author) ==
    CalculationRun(cache, validReactionEmojis, excludeAuthor, author).list

RECURSIVE SumCounts(_, _)
SumCounts(list, i) == IF i > Len(list) THEN 0 ELSE list[i].count + SumCounts(list, i + 1)

calculateTotalCount(list) == SumCounts(list, 1)

\* the count a result gives an emoji (0 when the emoji has no entry)
CountFor(list, e) ==
    IF \E i \in DOMAIN list : list[i].emoji = e
    THEN (CHOOSE r \in Range(list) : r.emoji = e).count
    ELSE 0

\* FireboardMessageManager._getValidReactions as the refresh of
\* src/reactions/fireboardMessageManager.js computes it: for each valid emoji
\* reaction.count, less one when the author is among its users
getValidReactions(cache, validReactionEmojis, excludeAuthorReactions, author) ==
    LET data == ValidReactionData(cache, validReactionEmojis)
    IN [i \in DOMAIN data |->
           [emoji |-> data[i].emoji,
            count |-> IF excludeAuthorReactions /\ author \in data[i].users
                      THEN Cardinality(data[i].users) - 1
                      ELSE Cardinality(data[i].users)]]

(***************************************************************************)
(* Bounds of the exploration.                                              *)
(***************************************************************************)
\* what the environment does in one run: the platform events it delivers to the bot
\* (reactions, deletions, commands, refreshes) plus the remote or store calls it fails
MaxEvents == 3

VARIABLES
    enabled,             \* settings.enabled
    reactions,           \* message.reactions.cache of every source message
    srcExists,           \* the source messages that still exist on the platform
    mirror,              \* the messages of the fireboard channel
    nextMessageId,       \* the id the platform gives the next message sent
    store,               \* the rows of the fireboard_entries table
    nextRowId,           \* the table's autoincrement primary key
    processingMessages,  \* Fireboard.processingMessages
    task,                \* the handlers in flight, each at its suspension point
    events,              \* platform events delivered so far
    faults,              \* remote or store calls that failed so far
    calcCache,           \* the reaction cache handed to calculateValidReactions
    calcExclude,         \* its excludeAuthor argument
    calcOut,             \* Null, or the run's result
    roleEnabled,         \* reactionRoleSettings.enabled
    guildRoles,          \* guild.roles.cache: the roles that exist
    members,             \* the users guild.members.fetch finds
    memberRoles,         \* member.roles.cache of every member
    handler,             \* the ReactionHandler calls in flight
    dbCall,              \* the last call of FireboardDatabase made on its own
    retired,             \* history: the entries removeFireboardEntry deleted
    roleSetup            \* the ReactionRoles instance across its initialize

engineVars == <<enabled, reactions, srcExists, mirror, nextMessageId, store, nextRowId,
                processingMessages, task, events, faults>>
calcVars == <<calcCache, calcExclude, calcOut>>
roleVars == <<roleEnabled, guildRoles, members, memberRoles, handler>>
otherVars == <<calcVars, roleVars, dbCall, retired, roleSetup>>
vars == <<engineVars, calcVars, roleVars, dbCall, retired, roleSetup>>

\* the reaction-role side and the store called on its own take no part in a run
RolesUnused ==
    /\ roleEnabled = FALSE
    /\ guildRoles = {}
    /\ members = {}
    /\ memberRoles = <<>>
    /\ handler = <<>>
    /\ dbCall = Null
    /\ retired = {}
    /\ roleSetup = Null

\* the environment may still act
Budget == events + faults < MaxEvents

(***************************************************************************)
(* FireboardDatabase over the FireboardEntry table                         *)
(***************************************************************************)
EntriesFor(rows, messageId) == {r \in rows : r.messageId = messageId}

\* FireboardEntry.findOne({ where: { messageId } })
findOne(rows, messageId) ==
    IF EntriesFor(rows, messageId) = {}
    THEN Null
    ELSE CHOOSE r \in EntriesFor(rows, messageId) :
             \A q \in EntriesFor(rows, messageId) : r.id <= q.id

\* getEntry: a storage error is caught and surfaces as null
getEntry(rows, messageId, storeError) ==
    IF storeError THEN Null ELSE findOne(rows, messageId)

\* the unique indexes of the table: messageId and fireboardMessageId
NoUniqueIndex(rows, row) == FALSE

UniqueViolation(rows, row) ==
    \E r \in rows : \/ r.messageId = row.messageId
                    \/ r.fireboardMessageId = row.fireboardMessageId

NewRow(id, messageId, fireboardMessageId, authorId, validReactionCount) ==
    [id |-> id, messageId |-> messageId, fireboardMessageId |-> fireboardMessageId,
     authorId |-> authorId, validReactionCount |-> validReactionCount]

\* FireboardEntry.update(updates, { where: { messageId } }) for updateEntry
updateEntry(rows, messageId, fireboardMessageId, validReactionCount) ==
    {IF r.messageId = messageId
     THEN [r EXCEPT !.fireboardMessageId = fireboardMessageId,
                    !.validReactionCount = validReactionCount]
     ELSE r : r \in rows}

\* an update that leaves the stored count as it was
KeepCount(rows, messageId, validReactionCount) == rows

updateValidReactionCount(rows, messageId, validReactionCount) ==
    {IF r.messageId = messageId
     THEN [r EXCEPT !.validReactionCount = validReactionCount]
     ELSE r : r \in rows}

\* FireboardEntry.update with the literal validReactionCount + increment
incrementValidReactionCount(rows, messageId, increment) ==
    {IF r.messageId = messageId
     THEN [r EXCEPT !.validReactionCount = @ + increment]
     ELSE r : r \in rows}

\* a decrement without the CASE WHEN of the literal
PlainDecrement(rows, messageId, decrement) ==
    {IF r.messageId = messageId
     THEN [r EXCEPT !.validReactionCount = @ - decrement]
     ELSE r : r \in rows}

\* FireboardEntry.update with the literal CASE WHEN validReactionCount >= decrement
\* THEN validReactionCount - decrement ELSE 0 END
decrementValidReactionCount(rows, messageId, decrement) ==
    {IF r.messageId = messageId
     THEN [r EXCEPT !.validReactionCount = IF @ >= decrement THEN @ - decrement ELSE 0]
     ELSE r : r \in rows}

\* a destroy that leaves the row in the table
KeepRow(rows, entry) == rows

\* deleteEntryObject: entry.destroy() deletes the row with the entry's primary key
deleteEntryObject(rows, entry) == {r \in rows : r.id # entry.id}

\* getAllEntries: order createdAt DESC, i.e. the newest row first
RECURSIVE NewestFirst(_)
NewestFirst(rows) ==
    IF rows = {} THEN <<>>
    ELSE LET newest == CHOOSE r \in rows : \A q \in rows : q.id <= r.id
         IN <<newest>> \o NewestFirst(rows \ {newest})

(***************************************************************************)
(* The embed of a mirror message                                           *)
(***************************************************************************)
createFireboardEmbed(messageId, list) ==
    [source |-> messageId, total |-> calculateTotalCount(list)]

(***************************************************************************)
(* The fireboard channel: its messages as the set of [id, embed]           *)
(***************************************************************************)
send(channel, id, embed) == channel \cup {[id |-> id, embed |-> embed]}

edit(channel, id, embed) ==
    {IF x.id = id THEN [x EXCEPT !.embed = embed] ELSE x : x \in channel}

delete(channel, id) == {x \in channel : x.id # id}

(***************************************************************************)
(* Tasks                                                                   *)
(***************************************************************************)
\* pc is the suspension point; op, msg, validReactions, existingEntry, entry,
\* fireboardMessage, queue, listed (entries.length), refreshed and removed are the
\* handler's parameters and locals, errors the entries whose refresh was caught; result is what the manager call returned, created the way createEntry
\* ended, threw whether an exception left the manager call, sent the messages the
\* handler sent to the fireboard channel. interfered records that a handler of
\* another kind ran at the same time, dropped that an event for the message was
\* skipped while this pass held its lock, channelFailed that the fetch of the
\* fireboard channel was rejected in the operation on the current message, pending
\* the messages of a bulk deletion the handler's loop has still to visit.
IdleTask ==
    [pc |-> "idle", op |-> "none", msg |-> "none", validReactions |-> <<>>,
     existingEntry |-> Null, entry |-> Null, fireboardMessage |-> 0, sent |-> 0,
     threw |-> FALSE, result |-> "none", created |-> "none", outcome |-> "none",
     queue |-> <<>>, listed |-> 0, refreshed |-> 0, removed |-> 0, errors |-> 0,
     interfered |-> FALSE, dropped |-> FALSE, channelFailed |-> FALSE,
     pending |-> <<>>]

PassOps == {"add", "remove"}

Idle(t) == task[t].pc = "idle"

\* idle tasks are interchangeable: a new handler takes the first one
FreeTask == CHOOSE t \in Tasks : Idle(t) /\ (t = "t1" \/ ~Idle("t1"))

CanStart(t) == (\E q \in Tasks : Idle(q)) /\ t = FreeTask

Set(t, rec) == task' = [task EXCEPT ![t] = rec]

\* two handlers in flight interfere unless both are reaction passes
Clash(op1, op2) == ~(op1 \in PassOps /\ op2 \in PassOps)

\* handler rec starts as task t beside the handlers in flight
Start(t, rec) ==
    task' = [q \in Tasks |->
                IF q = t
                THEN [rec EXCEPT !.interfered =
                         \E p \in Tasks \ {t} : ~Idle(p) /\ Clash(rec.op, task[p].op)]
                ELSE IF ~Idle(q) /\ Clash(rec.op, task[q].op)
                THEN [task[q] EXCEPT !.interfered = TRUE]
                ELSE task[q]]

\* this.processingMessages.has(message.id)
NeverProcessing(processing, messageId) == FALSE

\* one lock for all messages
AnyProcessing(processing, messageId) == processing # {}

IsProcessing(processing, messageId) == messageId \in processing

\* a failing call is taken from the environment's budget
MayFail(failed) == failed => Budget
CountFault(failed) == faults' = IF failed THEN faults + 1 ELSE faults

Total(t) == calculateTotalCount(task[t].validReactions)

\* an exception leaves the manager call; the caller's finally/catch runs at "fin"
Throw(t) == Set(t, [task[t] EXCEPT !.pc = "fin", !.threw = TRUE, !.result = "error"])

\* this.client.channels.fetch(this.settings.channelId) rejects, outside any try
ChannelThrow(t) ==
    /\ MayFail(TRUE) /\ CountFault(TRUE)
    /\ Set(t, [task[t] EXCEPT !.pc = "fin", !.threw = TRUE, !.result = "error",
                              !.channelFailed = TRUE])

(***************************************************************************)
(* Platform events on a source message                                     *)
(***************************************************************************)
ReactionChange(m, u, e, action) ==
    /\ Budget
    /\ m \in srcExists
    /\ IF action = "add"
       THEN u \notin UsersOf(reactions[m], e)
            /\ reactions' = [reactions EXCEPT ![m] = AddReaction(@, u, e)]
       ELSE u \in UsersOf(reactions[m], e)
            /\ reactions' = [reactions EXCEPT ![m] = RemoveReaction(@, u, e)]
    /\ events' = events + 1

\* handleReactionAdd / handleReactionRemove with the fireboard disabled
ReactionDisabled(m, u, e, action) ==
    /\ ReactionChange(m, u, e, action)
    /\ ~enabled
    /\ UNCHANGED <<enabled, srcExists, mirror, nextMessageId, store, nextRowId,
                   processingMessages, task, faults, otherVars>>

\* _processReactionChange: the message is already being processed, the event is skipped
ReactionDropped(m, u, e, action) ==
    /\ ReactionChange(m, u, e, action)
    /\ enabled
    /\ IsProcessing(processingMessages, m)
    /\ task' = [q \in Tasks |->
                   IF task[q].op \in PassOps /\ task[q].msg = m
                   THEN [task[q] EXCEPT !.dropped = TRUE] ELSE task[q]]
    /\ UNCHANGED <<enabled, srcExists, mirror, nextMessageId, store, nextRowId,
                   processingMessages, faults, otherVars>>

\* _processReactionChange: the pass takes the lock and suspends at its first fetch
ReactionStart(t, m, u, e, action) ==
    /\ ReactionChange(m, u, e, action)
    /\ enabled
    /\ CanStart(t)
    /\ ~IsProcessing(processingMessages, m)
    /\ processingMessages' = processingMessages \cup {m}
    /\ Start(t, [IdleTask EXCEPT !.pc = "fetch", !.op = action, !.msg = m])
    /\ UNCHANGED <<enabled, srcExists, mirror, nextMessageId, store, nextRowId,
                   faults, otherVars>>

HasValidReaction(m) == ValidReactionData(reactions[m], validReactions) # <<>>

\* safelyFetchMessage, safelyFetchReactions, _getValidReactions
PassFetch(t) ==
    /\ task[t].pc = "fetch"
    /\ task[t].msg \in srcExists \/ ~HasValidReaction(task[t].msg)
    /\ Set(t, [task[t] EXCEPT
                 !.pc = "qualify",
                 !.validReactions =
                     calculateValidReactions(reactions[task[t].msg], validReactions,
                                             settings.excludeAuthorReactions,
                                             AuthorOf(task[t].msg))])
    /\ UNCHANGED <<enabled, reactions, srcExists, mirror, nextMessageId, store,
                   nextRowId, processingMessages, events, faults, otherVars>>

\* reaction.users.fetch() rejects: the message is gone, or the call fails
PassFetchThrow(t) ==
    /\ task[t].pc = "fetch"
    /\ HasValidReaction(task[t].msg)
    /\ \E failed \in BOOLEAN :
          /\ failed = (task[t].msg \in srcExists)
          /\ MayFail(failed)
          /\ CountFault(failed)
    /\ Throw(t)
    /\ UNCHANGED <<enabled, reactions, srcExists, mirror, nextMessageId, store,
                   nextRowId, processingMessages, events, otherVars>>

\* _handleFireboardQualification
\* the qualification without its test of the action: a remove event adds as well
QualifyAnyAction(total, existingEntry, action) ==
    IF total >= settings.threshold
    THEN IF existingEntry = Null THEN "add_get" ELSE "upd_fetch"
    ELSE IF existingEntry # Null THEN "rm_fetch" ELSE "fin"

\* the qualification with a strict comparison against the threshold
QualifyStrict(total, existingEntry, action) ==
    IF total > settings.threshold
    THEN IF existingEntry = Null /\ action = "add" THEN "add_get"
         ELSE IF existingEntry # Null THEN "upd_fetch"
         ELSE "fin"
    ELSE IF existingEntry # Null THEN "rm_fetch" ELSE "fin"

QualifyBranch(total, existingEntry, action) ==
    IF total >= settings.threshold
    THEN IF existingEntry = Null /\ action = "add" THEN "add_get"
         ELSE IF existingEntry # Null THEN "upd_fetch"
         ELSE "fin"
    ELSE IF existingEntry # Null THEN "rm_fetch" ELSE "fin"

Qualify(t) ==
    /\ task[t].pc = "qualify"
    /\ \E storeError \in BOOLEAN :
          /\ MayFail(storeError)
          /\ storeError => findOne(store, task[t].msg) # Null
          /\ CountFault(storeError)
          /\ LET existingEntry == getEntry(store, task[t].msg, storeError)
             IN Set(t, [task[t] EXCEPT
                          !.existingEntry = existingEntry,
                          !.entry = existingEntry,
                          !.pc = QualifyBranch(Total(t), existingEntry, task[t].op)])
    /\ UNCHANGED <<enabled, reactions, srcExists, mirror, nextMessageId, store,
                   nextRowId, processingMessages, events, otherVars>>

\* a finally that leaves the message in the processing set
KeepLocked(processing, messageId) == processing

\* this.processingMessages.delete(message.id)
Release(processing, messageId) == processing \ {messageId}

\* how the promise of handleReactionAdd / handleReactionRemove settles once the
\* pass is over: neither the handler nor _processReactionChange has a catch, so
\* an exception of the pass rejects it; otherwise the handler returns false
handleReactionSettles(t) == IF task[t].threw THEN "rejected" ELSE "false"

\* the finally of _processReactionChange, and the return to the event loop
Unlock(t) ==
    /\ task[t].pc = "fin"
    /\ task[t].op \in {"add", "remove"}
    /\ processingMessages' = Release(processingMessages, task[t].msg)
    /\ Set(t, IdleTask)
    /\ UNCHANGED <<enabled, reactions, srcExists, mirror, nextMessageId, store,
                   nextRowId, events, faults, otherVars>>

\* what no manager step touches
Platform == <<enabled, reactions, srcExists, events, otherVars>>

(***************************************************************************)
(* FireboardMessageManager.addToFireboard                                  *)
(***************************************************************************)
\* the double check: getEntry again, update instead when an entry exists
AddGetEntry(t) ==
    /\ task[t].pc = "add_get"
    /\ \E storeError \in BOOLEAN :
          /\ MayFail(storeError)
          /\ storeError => findOne(store, task[t].msg) # Null
          /\ CountFault(storeError)
          /\ LET existingEntry == getEntry(store, task[t].msg, storeError)
             IN IF existingEntry # Null
                THEN Set(t, [task[t] EXCEPT !.entry = existingEntry, !.pc = "upd_fetch"])
                ELSE Set(t, [task[t] EXCEPT !.pc = "add_send"])
    /\ UNCHANGED <<Platform, mirror, nextMessageId, store, nextRowId, processingMessages>>

\* channels.fetch, createFireboardEmbed, fireboardChannel.send
AddSend(t) ==
    /\ task[t].pc = "add_send"
    /\ mirror' = send(mirror, nextMessageId,
                       createFireboardEmbed(task[t].msg, task[t].validReactions))
    /\ nextMessageId' = nextMessageId + 1
    /\ Set(t, [task[t] EXCEPT !.pc = "add_find", !.fireboardMessage = nextMessageId,
                              !.sent = @ + 1])
    /\ UNCHANGED <<Platform, store, nextRowId, processingMessages, faults>>

\* channels.fetch rejects: addToFireboard throws
AddChannelThrow(t) ==
    /\ task[t].pc = "add_send"
    /\ ChannelThrow(t)
    /\ UNCHANGED <<Platform, mirror, nextMessageId, store, nextRowId, processingMessages>>

\* send rejects: addToFireboard throws
AddSendThrow(t) ==
    /\ task[t].pc = "add_send"
    /\ MayFail(TRUE) /\ CountFault(TRUE)
    /\ Throw(t)
    /\ UNCHANGED <<Platform, mirror, nextMessageId, store, nextRowId, processingMessages>>

\* createEntry, the SELECT of findOrCreate: an existing row is returned as it is
CreateFind(t) ==
    /\ task[t].pc = "add_find"
    /\ \E storeError \in BOOLEAN :
          /\ MayFail(storeError)
          /\ CountFault(storeError)
          /\ IF storeError
             THEN Set(t, [task[t] EXCEPT !.pc = "fin", !.entry = Null, !.result = "false",
                                         !.created = "error"])
             ELSE IF findOne(store, task[t].msg) # Null
             THEN Set(t, [task[t] EXCEPT !.pc = "fin", !.result = "true",
                                         !.created = "found",
                                         !.entry = findOne(store, task[t].msg)])
             ELSE Set(t, [task[t] EXCEPT !.pc = "add_insert"])
    /\ UNCHANGED <<Platform, mirror, nextMessageId, store, nextRowId, processingMessages>>

\* createEntry, the INSERT of findOrCreate under the table's unique indexes
CreateInsert(t) ==
    /\ task[t].pc = "add_insert"
    /\ LET row == NewRow(nextRowId, task[t].msg, task[t].fireboardMessage,
                         AuthorOf(task[t].msg), Total(t))
       IN IF UniqueViolation(store, row)
          THEN /\ Set(t, [task[t] EXCEPT !.pc = "add_refind"])
               /\ UNCHANGED <<store, nextRowId>>
          ELSE /\ store' = store \cup {row}
               /\ nextRowId' = nextRowId + 1
               /\ Set(t, [task[t] EXCEPT !.pc = "fin", !.entry = row, !.result = "true",
                                         !.created = "created"])
    /\ UNCHANGED <<Platform, mirror, nextMessageId, processingMessages, faults>>

\* createEntry after SequelizeUniqueConstraintError: the existing entry is looked up
CreateRefind(t) ==
    /\ task[t].pc = "add_refind"
    /\ LET found == findOne(store, task[t].msg)
       IN Set(t, [task[t] EXCEPT !.pc = "fin", !.entry = found, !.created = "refound",
                                 !.result = IF found = Null THEN "false" ELSE "true"])
    /\ UNCHANGED <<Platform, mirror, nextMessageId, store, nextRowId, processingMessages,
                   faults>>

(***************************************************************************)
(* FireboardMessageManager.updateFireboardEntry                            *)
(***************************************************************************)
MirrorExists(id) == \E x \in mirror : x.id = id

\* channels.fetch and fireboardChannel.messages.fetch(entry.fireboardMessageId)
UpdateFetch(t) ==
    /\ task[t].pc = "upd_fetch"
    /\ \E failed \in BOOLEAN :
          /\ MayFail(failed)
          /\ failed => MirrorExists(task[t].entry.fireboardMessageId)
          /\ CountFault(failed)
          /\ IF MirrorExists(task[t].entry.fireboardMessageId) /\ ~failed
             THEN Set(t, [task[t] EXCEPT !.pc = "upd_edit"])
             ELSE Set(t, [task[t] EXCEPT !.pc = "rec_send"])
    /\ UNCHANGED <<Platform, mirror, nextMessageId, store, nextRowId, processingMessages>>

\* channels.fetch rejects: updateFireboardEntry throws
UpdateFetchThrow(t) ==
    /\ task[t].pc = "upd_fetch"
    /\ ChannelThrow(t)
    /\ UNCHANGED <<Platform, mirror, nextMessageId, store, nextRowId, processingMessages>>

\* _updateFireboardMessage: fireboardMessage.edit({ embeds: [embed] })
UpdateEdit(t) ==
    /\ task[t].pc = "upd_edit"
    /\ MirrorExists(task[t].entry.fireboardMessageId)
    /\ mirror' = edit(mirror, task[t].entry.fireboardMessageId,
                       createFireboardEmbed(task[t].msg, task[t].validReactions))
    /\ Set(t, [task[t] EXCEPT !.pc = "upd_count"])
    /\ UNCHANGED <<Platform, nextMessageId, store, nextRowId, processingMessages, faults>>

\* the edit rejects: the mirror message was deleted meanwhile, or the call fails
UpdateEditThrow(t) ==
    /\ task[t].pc = "upd_edit"
    /\ \E failed \in BOOLEAN :
          /\ failed = MirrorExists(task[t].entry.fireboardMessageId)
          /\ MayFail(failed)
          /\ CountFault(failed)
    /\ Throw(t)
    /\ UNCHANGED <<Platform, mirror, nextMessageId, store, nextRowId, processingMessages>>

\* FireboardDatabase.updateValidReactionCount(originalMessage.id, total)
UpdateCount(t) ==
    /\ task[t].pc = "upd_count"
    /\ \E storeError \in BOOLEAN :
          /\ MayFail(storeError)
          /\ storeError => updateValidReactionCount(store, task[t].msg, Total(t)) # store
          /\ CountFault(storeError)
          /\ store' = IF storeError THEN store
                      ELSE updateValidReactionCount(store, task[t].msg, Total(t))
    /\ Set(t, [task[t] EXCEPT !.pc = "fin", !.result = "true"])
    /\ UNCHANGED <<Platform, mirror, nextMessageId, nextRowId, processingMessages>>

(***************************************************************************)
(* FireboardMessageManager._recreateFireboardEntry                         *)
(***************************************************************************)
\* channels.fetch, createFireboardEmbed, fireboardChannel.send
RecreateSend(t) ==
    /\ task[t].pc = "rec_send"
    /\ mirror' = send(mirror, nextMessageId,
                       createFireboardEmbed(task[t].msg, task[t].validReactions))
    /\ nextMessageId' = nextMessageId + 1
    /\ Set(t, [task[t] EXCEPT !.pc = "rec_update", !.fireboardMessage = nextMessageId,
                              !.sent = @ + 1])
    /\ UNCHANGED <<Platform, store, nextRowId, processingMessages, faults>>

\* channels.fetch rejects: _recreateFireboardEntry throws
RecreateChannelThrow(t) ==
    /\ task[t].pc = "rec_send"
    /\ ChannelThrow(t)
    /\ UNCHANGED <<Platform, mirror, nextMessageId, store, nextRowId, processingMessages>>

\* send rejects: _recreateFireboardEntry throws
RecreateSendThrow(t) ==
    /\ task[t].pc = "rec_send"
    /\ MayFail(TRUE) /\ CountFault(TRUE)
    /\ Throw(t)
    /\ UNCHANGED <<Platform, mirror, nextMessageId, store, nextRowId, processingMessages>>

\* FireboardDatabase.updateEntry(entry.messageId, { fireboardMessageId, validReactionCount })
RecreateUpdate(t) ==
    /\ task[t].pc = "rec_update"
    /\ \E storeError \in BOOLEAN :
          /\ MayFail(storeError)
          /\ storeError => EntriesFor(store, task[t].entry.messageId) # {}
          /\ CountFault(storeError)
          /\ store' = IF storeError THEN store
                      ELSE updateEntry(store, task[t].entry.messageId,
                                       task[t].fireboardMessage, Total(t))
    /\ Set(t, [task[t] EXCEPT !.pc = "fin", !.result = "true"])
    /\ UNCHANGED <<Platform, mirror, nextMessageId, nextRowId, processingMessages>>

(***************************************************************************)
(* FireboardMessageManager.removeFireboardEntry                            *)
(***************************************************************************)
\* channels.fetch rejects inside the try of removeFireboardEntry: the catch logs
\* it and the entry is deleted all the same
RemoveChannelThrow(t) ==
    /\ task[t].pc = "rm_fetch"
    /\ MayFail(TRUE) /\ CountFault(TRUE)
    /\ Set(t, [task[t] EXCEPT !.pc = "rm_destroy", !.channelFailed = TRUE])
    /\ UNCHANGED <<Platform, mirror, nextMessageId, store, nextRowId, processingMessages>>

\* channels.fetch and messages.fetch(entry.fireboardMessageId); a rejection of the
\* message fetch is caught
RemoveFetch(t) ==
    /\ task[t].pc = "rm_fetch"
    /\ \E failed \in BOOLEAN :
          /\ MayFail(failed)
          /\ failed => MirrorExists(task[t].entry.fireboardMessageId)
          /\ CountFault(failed)
          /\ IF MirrorExists(task[t].entry.fireboardMessageId) /\ ~failed
             THEN Set(t, [task[t] EXCEPT !.pc = "rm_delete",
                             !.fireboardMessage = task[t].entry.fireboardMessageId])
             ELSE Set(t, [task[t] EXCEPT !.pc = "rm_destroy"])
    /\ UNCHANGED <<Platform, mirror, nextMessageId, store, nextRowId, processingMessages>>

\* fireboardMessage.delete(); a rejection is caught
RemoveDelete(t) ==
    /\ task[t].pc = "rm_delete"
    /\ \E failed \in BOOLEAN :
          /\ MayFail(failed)
          /\ failed => MirrorExists(task[t].entry.fireboardMessageId)
          /\ CountFault(failed)
          /\ mirror' = IF failed THEN mirror
                       ELSE delete(mirror, task[t].entry.fireboardMessageId)
    /\ Set(t, [task[t] EXCEPT !.pc = "rm_destroy"])
    /\ UNCHANGED <<Platform, nextMessageId, store, nextRowId, processingMessages>>

\* what is remembered of a deleted entry: its message, its mirror message and the
\* handler that deleted it
Retire(rows, op) ==
    {[messageId |-> r.messageId, fireboardMessageId |-> r.fireboardMessageId,
      op |-> op] : r \in rows}

\* FireboardDatabase.deleteEntryObject(entry)
RemoveDestroy(t) ==
    /\ task[t].pc = "rm_destroy"
    /\ \E storeError \in BOOLEAN :
          /\ MayFail(storeError)
          /\ storeError => deleteEntryObject(store, task[t].entry) # store
          /\ CountFault(storeError)
          /\ store' = IF storeError THEN store ELSE deleteEntryObject(store, task[t].entry)
          /\ retired' = retired \cup Retire(store \ store', task[t].op)
          /\ Set(t, [task[t] EXCEPT !.pc = "fin",
                                    !.result = IF storeError THEN "false" ELSE "true"])
    /\ UNCHANGED <<enabled, reactions, srcExists, events, calcVars, roleVars, dbCall,
                   mirror, nextMessageId, nextRowId, processingMessages, roleSetup>>

(***************************************************************************)
(* Fireboard.handleMessageDelete                                           *)
(***************************************************************************)
SourceDeleted(m) ==
    /\ Budget
    /\ m \in srcExists
    /\ srcExists' = srcExists \ {m}
    /\ events' = events + 1

MessageDeleteDisabled(m) ==
    /\ SourceDeleted(m)
    /\ ~enabled
    /\ UNCHANGED <<enabled, reactions, mirror, nextMessageId, store, nextRowId,
                   processingMessages, task, faults, otherVars>>

\* the handler starts and suspends at getEntry; it takes no lock
MessageDelete(t, m) ==
    /\ SourceDeleted(m)
    /\ enabled
    /\ CanStart(t)
    /\ Start(t, [IdleTask EXCEPT !.pc = "del_get", !.op = "delete", !.msg = m])
    /\ UNCHANGED <<enabled, reactions, mirror, nextMessageId, store, nextRowId,
                   processingMessages, faults, otherVars>>

\* the batches of the bulk-delete event that are delivered: the message with an entry
BulkInputs == {<<"m2", "m1">>}

\* MessageBulkDelete execute: for each message of the batch, in order, the
\* entry is looked up and removed with its mirror message (getFireboardEntry and
\* removeFireboardEntryCompletely of the Fireboard class the handler is written
\* against, the same steps as getEntry and removeFireboardEntry); settings.enabled
\* is not read on this path and no lock is taken
BulkDelete(t, messages) ==
    /\ Budget
    /\ Range(messages) \subseteq srcExists
    /\ srcExists' = srcExists \ Range(messages)
    /\ events' = events + 1
    /\ CanStart(t)
    /\ Start(t, [IdleTask EXCEPT !.pc = "del_get", !.op = "bulk",
                                 !.msg = Head(messages), !.pending = Tail(messages)])
    /\ UNCHANGED <<enabled, reactions, mirror, nextMessageId, store, nextRowId,
                   processingMessages, faults, otherVars>>

\* a loop that ends after its first message
BreakLoop(rec) == [rec EXCEPT !.pending = <<>>]

\* the for loop of MessageBulkDelete: removedCount++ when the message had an
\* entry, then the next message of the batch
NextMessage(rec) ==
    [rec EXCEPT !.pc = "del_get", !.msg = Head(rec.pending),
                !.pending = Tail(rec.pending), !.entry = Null,
                !.removed = IF rec.entry # Null THEN @ + 1 ELSE @,
                !.result = "none", !.fireboardMessage = 0, !.channelFailed = FALSE]

BulkNext(t) ==
    /\ task[t].pc = "fin" /\ task[t].op = "bulk"
    /\ task[t].pending # <<>>
    /\ Set(t, NextMessage(task[t]))
    /\ UNCHANGED <<Platform, mirror, nextMessageId, store, nextRowId, processingMessages,
                   faults>>

DeleteGetEntry(t) ==
    /\ task[t].pc = "del_get"
    /\ \E storeError \in BOOLEAN :
          /\ MayFail(storeError)
          /\ storeError => findOne(store, task[t].msg) # Null
          /\ CountFault(storeError)
          /\ LET entry == getEntry(store, task[t].msg, storeError)
             IN Set(t, [task[t] EXCEPT !.entry = entry,
                          !.pc = IF entry # Null THEN "rm_fetch" ELSE "fin"])
    /\ UNCHANGED <<Platform, mirror, nextMessageId, store, nextRowId, processingMessages>>

(***************************************************************************)
(* The manual add command: handleAdd of commands/utility/reactions.js      *)
(***************************************************************************)
\* enabled check and targetChannel.messages.fetch(messageId); no lock is taken
ManualAdd(t, m) ==
    /\ Budget
    /\ enabled
    /\ m \in srcExists
    /\ CanStart(t)
    /\ events' = events + 1
    /\ Start(t, [IdleTask EXCEPT !.pc = "man_get", !.op = "manual", !.msg = m])
    /\ UNCHANGED <<enabled, reactions, srcExists, mirror, nextMessageId, store,
                   nextRowId, processingMessages, faults, otherVars>>

\* "This message is already on the fireboard."
ManualGetEntry(t) ==
    /\ task[t].pc = "man_get"
    /\ \E storeError \in BOOLEAN :
          /\ MayFail(storeError)
          /\ storeError => findOne(store, task[t].msg) # Null
          /\ CountFault(storeError)
          /\ LET existingEntry == getEntry(store, task[t].msg, storeError)
             IN IF existingEntry # Null
                THEN Set(t, [task[t] EXCEPT !.pc = "fin", !.result = "already"])
                ELSE Set(t, [task[t] EXCEPT !.pc = "man_fetch"])
    /\ UNCHANGED <<Platform, mirror, nextMessageId, store, nextRowId, processingMessages>>

\* fireboard.getValidReactions(message, true) and the threshold check of the command
ManualFetch(t) ==
    /\ task[t].pc = "man_fetch"
    /\ task[t].msg \in srcExists \/ ~HasValidReaction(task[t].msg)
    /\ LET list == calculateValidReactions(reactions[task[t].msg], validReactions,
                                           TRUE, AuthorOf(task[t].msg))
       IN Set(t, [task[t] EXCEPT
                    !.validReactions = list,
                    !.pc = IF calculateTotalCount(list) < settings.threshold
                           THEN "fin" ELSE "add_get",
                    !.result = IF calculateTotalCount(list) < settings.threshold
                               THEN "below" ELSE "none"])
    /\ UNCHANGED <<Platform, mirror, nextMessageId, store, nextRowId, processingMessages,
                   faults>>

ManualFetchThrow(t) ==
    /\ task[t].pc = "man_fetch"
    /\ HasValidReaction(task[t].msg)
    /\ \E failed \in BOOLEAN :
          /\ failed = (task[t].msg \in srcExists)
          /\ MayFail(failed)
          /\ CountFault(failed)
    /\ Throw(t)
    /\ UNCHANGED <<Platform, mirror, nextMessageId, store, nextRowId, processingMessages>>

(***************************************************************************)
(* FireboardMessageManager.refreshAllEntries                               *)
(***************************************************************************)
\* Fireboard.initialize with the fireboard disabled: it returns before the refresh
RefreshDisabled ==
    /\ Budget
    /\ ~enabled
    /\ events' = events + 1
    /\ UNCHANGED <<enabled, reactions, srcExists, mirror, nextMessageId, store,
                   nextRowId, processingMessages, task, faults, otherVars>>

\* Fireboard.initialize: the refresh takes no lock
RefreshStart(t) ==
    /\ Budget
    /\ enabled
    /\ CanStart(t)
    /\ events' = events + 1
    /\ Start(t, [IdleTask EXCEPT !.pc = "ref_list", !.op = "refresh"])
    /\ UNCHANGED <<enabled, reactions, srcExists, mirror, nextMessageId, store,
                   nextRowId, processingMessages, faults, otherVars>>

NextEntry(rec, queue) ==
    IF queue = <<>>
    THEN [rec EXCEPT !.pc = "ref_done", !.queue = <<>>, !.threw = FALSE,
                     !.channelFailed = FALSE]
    ELSE [rec EXCEPT !.pc = "ref_src", !.queue = queue, !.entry = Head(queue),
                     !.msg = Head(queue).messageId, !.threw = FALSE,
                     !.channelFailed = FALSE,
                     !.outcome = "none", !.result = "none", !.fireboardMessage = 0,
                     !.validReactions = <<>>]

\* getAllEntries (a storage error gives the empty list) and channels.fetch
RefreshList(t) ==
    /\ task[t].pc = "ref_list"
    /\ \E storeError \in BOOLEAN :
          /\ MayFail(storeError)
          /\ storeError => store # {}
          /\ CountFault(storeError)
          /\ LET entries == IF storeError THEN <<>> ELSE NewestFirst(store)
             IN Set(t, NextEntry([task[t] EXCEPT !.listed = Len(entries)], entries))
    /\ UNCHANGED <<Platform, mirror, nextMessageId, store, nextRowId, processingMessages>>

\* channels.fetch rejects after getAllEntries: refreshAllEntries throws
RefreshChannelThrow(t) ==
    /\ task[t].pc = "ref_list"
    /\ MayFail(TRUE) /\ CountFault(TRUE)
    /\ Set(t, [task[t] EXCEPT !.pc = "ref_done", !.threw = TRUE, !.result = "error",
                              !.channelFailed = TRUE])
    /\ UNCHANGED <<Platform, mirror, nextMessageId, store, nextRowId, processingMessages>>

\* _refreshSingleEntry: _fetchMessageById(entry.messageId)
RefreshFetchSource(t) ==
    /\ task[t].pc = "ref_src"
    /\ IF task[t].msg \in srcExists
       THEN Set(t, [task[t] EXCEPT !.pc = "ref_fb", !.outcome = "refreshed"])
       ELSE Set(t, [task[t] EXCEPT !.pc = "rm_fetch", !.outcome = "removed"])
    /\ UNCHANGED <<Platform, mirror, nextMessageId, store, nextRowId, processingMessages,
                   faults>>

\* messages.fetch(entry.fireboardMessageId) and _getValidReactions: edit or recreate
RefreshFetchMirror(t) ==
    /\ task[t].pc = "ref_fb"
    /\ task[t].msg \in srcExists \/ ~HasValidReaction(task[t].msg)
    /\ \E failed \in BOOLEAN :
          /\ MayFail(failed)
          /\ failed => MirrorExists(task[t].entry.fireboardMessageId)
          /\ CountFault(failed)
          /\ Set(t, [task[t] EXCEPT
                       !.validReactions =
                           calculateValidReactions(reactions[task[t].msg], validReactions,
                                                   settings.excludeAuthorReactions,
                                                   AuthorOf(task[t].msg)),
                       !.pc = IF MirrorExists(task[t].entry.fireboardMessageId) /\ ~failed
                              THEN "upd_edit" ELSE "rec_send"])
    /\ UNCHANGED <<Platform, mirror, nextMessageId, store, nextRowId, processingMessages>>

\* reaction.users.fetch() rejects inside _getValidReactions
RefreshFetchThrow(t) ==
    /\ task[t].pc = "ref_fb"
    /\ HasValidReaction(task[t].msg)
    /\ \E failed \in BOOLEAN :
          /\ failed = (task[t].msg \in srcExists)
          /\ MayFail(failed)
          /\ CountFault(failed)
    /\ Throw(t)
    /\ UNCHANGED <<Platform, mirror, nextMessageId, store, nextRowId, processingMessages>>

\* a loop that counts every result as refreshed
CountAsRefreshed(result, kind) == IF kind = "refreshed" THEN 1 ELSE 0

\* if (result === 'refreshed') refreshed++; else if (result === 'removed') removed++
ResultCount(result, kind) == IF result = kind THEN 1 ELSE 0

\* the loop of refreshAllEntries: count the result, catch an error, take the next entry
RefreshNext(t) ==
    /\ task[t].pc = "fin"
    /\ task[t].op = "refresh"
    /\ Set(t, NextEntry(IF task[t].threw
                        THEN [task[t] EXCEPT !.errors = @ + 1]
                        ELSE [task[t] EXCEPT
                                !.refreshed = @ + ResultCount(task[t].outcome, "refreshed"),
                                !.removed = @ + ResultCount(task[t].outcome, "removed")],
                        Tail(task[t].queue)))
    /\ UNCHANGED <<Platform, mirror, nextMessageId, store, nextRowId, processingMessages,
                   faults>>

\* a handler that holds no lock returns to the event loop
Return(t) ==
    /\ \/ task[t].pc = "fin" /\ task[t].op \in {"delete", "manual"}
       \/ task[t].pc = "fin" /\ task[t].op = "bulk" /\ task[t].pending = <<>>
       \/ task[t].pc = "ref_done"
    /\ Set(t, IdleTask)
    /\ UNCHANGED <<Platform, mirror, nextMessageId, store, nextRowId, processingMessages,
                   faults>>

(***************************************************************************)
(* A moderator deletes a mirror message by hand                            *)
(***************************************************************************)
MirrorDeleted(id) ==
    /\ Budget
    /\ MirrorExists(id)
    /\ mirror' = delete(mirror, id)
    /\ events' = events + 1
    /\ UNCHANGED <<enabled, reactions, srcExists, nextMessageId, store, nextRowId,
                   processingMessages, task, faults, otherVars>>

(***************************************************************************)
(* The engine's specification                                              *)
(***************************************************************************)
\* reactions a message may carry when the bot starts
InitCaches(m) ==
    IF m = "m1"
    THEN {<<>>, <<[emoji |-> "up", users |-> {"a", "b", "c"}]>>}
    ELSE {<<[emoji |-> "up", users |-> {"a"}]>>}

\* the table outlives the process: m2 went on the fireboard in an earlier run, with
\* the reactions it still carries
InitEntry ==
    NewRow(1, "m2", 1, AuthorOf("m2"),
           calculateTotalCount(calculateValidReactions(
               <<[emoji |-> "up", users |-> {"a"}]>>, validReactions,
               settings.excludeAuthorReactions, AuthorOf("m2"))))

Init ==
    /\ enabled \in BOOLEAN
    /\ reactions \in {f \in [Msgs -> UNION {InitCaches(m) : m \in Msgs}] :
                         \A m \in Msgs : f[m] \in InitCaches(m)}
    /\ srcExists = Msgs
    /\ store = {InitEntry}
    /\ nextRowId = InitEntry.id + 1
    /\ mirror = send({}, InitEntry.fireboardMessageId,
                     [source |-> InitEntry.messageId, total |-> InitEntry.validReactionCount])
    /\ nextMessageId = InitEntry.fireboardMessageId + 1
    /\ processingMessages = {}
    /\ task = [t \in Tasks |-> IdleTask]
    /\ events = 0
    /\ faults = 0
    /\ calcCache = <<>>
    /\ calcExclude = FALSE
    /\ calcOut = Null
    /\ RolesUnused

MessageIds == 1..(MaxEvents + 2)

\* the reactions users add or remove while the bot runs
ReactionInputs(m) ==
    IF m = "m1"
    THEN {<<"b", "up">>, <<"c", "fire">>}
    ELSE {<<"c", "up">>}

Next ==
    \/ \E m \in Msgs : \E r \in ReactionInputs(m), action \in {"add", "remove"} :
          \/ ReactionDisabled(m, r[1], r[2], action)
          \/ ReactionDropped(m, r[1], r[2], action)
          \/ \E t \in Tasks : ReactionStart(t, m, r[1], r[2], action)
    \/ \E m \in Msgs : MessageDeleteDisabled(m)
    \/ \E t \in Tasks, m \in Msgs : MessageDelete(t, m) \/ ManualAdd(t, m)
    \/ \E t \in Tasks, messages \in BulkInputs : BulkDelete(t, messages)
    \/ \E t \in Tasks : BulkNext(t)
    \/ RefreshDisabled
    \/ \E id \in MessageIds : MirrorDeleted(id)
    \/ \E t \in Tasks :
          \/ RefreshStart(t)
          \/ PassFetch(t) \/ PassFetchThrow(t) \/ Qualify(t) \/ Unlock(t)
          \/ AddGetEntry(t) \/ AddSend(t) \/ AddSendThrow(t) \/ AddChannelThrow(t)
          \/ CreateFind(t) \/ CreateInsert(t) \/ CreateRefind(t)
          \/ UpdateFetch(t) \/ UpdateFetchThrow(t) \/ UpdateEdit(t) \/ UpdateEditThrow(t)
          \/ UpdateCount(t)
          \/ RecreateSend(t) \/ RecreateSendThrow(t) \/ RecreateChannelThrow(t)
          \/ RecreateUpdate(t)
          \/ RemoveChannelThrow(t) \/ RemoveFetch(t) \/ RemoveDelete(t) \/ RemoveDestroy(t)
          \/ DeleteGetEntry(t)
          \/ ManualGetEntry(t) \/ ManualFetch(t) \/ ManualFetchThrow(t)
          \/ RefreshList(t) \/ RefreshFetchSource(t) \/ RefreshFetchMirror(t)
          \/ RefreshChannelThrow(t) \/ RefreshFetchThrow(t) \/ RefreshNext(t) \/ Return(t)

Spec == Init /\ [][Next]_vars

(***************************************************************************)
(* The specification of calculateValidReactions as a pure function: users  *)
(* react and unreact on one message, then the calculation is applied.      *)
(***************************************************************************)
CalcAuthor == "a"

CalcInit ==
    /\ enabled = TRUE
    /\ reactions = [m \in Msgs |-> <<>>]
    /\ srcExists = Msgs
    /\ mirror = {}
    /\ nextMessageId = 1
    /\ store = {}
    /\ nextRowId = 1
    /\ processingMessages = {}
    /\ task = [t \in Tasks |-> IdleTask]
    /\ events = 0
    /\ faults = 0
    /\ calcCache = <<>>
    /\ calcExclude \in BOOLEAN
    /\ calcOut = Null
    /\ RolesUnused

CalcReact(u, e) ==
    /\ u \notin UsersOf(calcCache, e)
    /\ calcCache' = AddReaction(calcCache, u, e)
    /\ calcOut' = Null
    /\ UNCHANGED <<calcExclude, engineVars, roleVars, dbCall, retired, roleSetup>>

CalcUnreact(u, e) ==
    /\ u \in UsersOf(calcCache, e)
    /\ calcCache' = RemoveReaction(calcCache, u, e)
    /\ calcOut' = Null
    /\ UNCHANGED <<calcExclude, engineVars, roleVars, dbCall, retired, roleSetup>>

CalcApply ==
    /\ calcOut = Null
    /\ calcOut' = CalculationRun(calcCache, validReactions, calcExclude, CalcAuthor)
    /\ UNCHANGED <<calcCache, calcExclude, engineVars, roleVars, dbCall, retired, roleSetup>>

CalcNext ==
    \/ \E u \in Users, e \in Emojis : CalcReact(u, e)
    \/ \E u \in Users, e \in Emojis : CalcUnreact(u, e)
    \/ CalcApply

SpecCalc == CalcInit /\ [][CalcNext]_vars

(***************************************************************************)
(* ReactionHandler and ReactionRoles: every reaction event goes to the     *)
(* reaction roles first and to the fireboard when they did not handle it.  *)
(* The fireboard is the callee only; what it does is the engine above.     *)
(***************************************************************************)
\* reactionRoleSettings.messageId, and an ordinary message
roleMessageId == "rr"
RouterMsgs == {roleMessageId, "m1"}

\* reactionRoleSettings.roleEmojis; the emoji "x" has no role
roleEmojis == [up |-> "r1", fire |-> "r2"]
Roles == {"r1", "r2"}

\* the users that react: a person and a bot (user.bot)
Humans == {"a"}
Bots == {"bot"}
Handlers == {"h1", "h2"}

\* pc is the await the call is suspended at; roleHandled the value returned by the
\* reaction roles; calls the callees the router has called for the event; before
\* the member's roles when the event arrived; issued the role add/remove calls
\* sent; overlapped whether another call was in flight beside this one
IdleHandler ==
    [pc |-> "idle", msg |-> "none", user |-> "none", emoji |-> "none",
     action |-> "none", roleHandled |-> FALSE, calls |-> <<>>, before |-> {},
     issued |-> 0, overlapped |-> FALSE]

HandlerIdle(h) == handler[h].pc = "idle"

\* the call the next event runs in
FreeHandler(h) == HandlerIdle(h) /\ (h = "h1" \/ ~HandlerIdle("h1"))

RolesOf(u) == IF u \in DOMAIN memberRoles THEN memberRoles[u] ELSE {}

\* a router that hands every event to the fireboard
AlwaysFallsBack(roleHandled) == TRUE

\* if (!roleHandled) await this.fireboard.handleReactionAdd(reaction, user)
FallsBack(roleHandled) == ~roleHandled

\* the reaction roles returned roleHandled to ReactionHandler
Routed(rec, roleHandled) ==
    IF FallsBack(roleHandled)
    THEN [rec EXCEPT !.roleHandled = roleHandled, !.pc = "fireboard",
                     !.calls = Append(@, "fireboard")]
    ELSE [rec EXCEPT !.roleHandled = roleHandled, !.pc = "done"]

\* what the router and the reaction roles never touch
engineRest == <<enabled, reactions, srcExists, mirror, nextMessageId, store, nextRowId,
                processingMessages, task>>
RouterFrame == UNCHANGED <<engineRest, calcVars, dbCall, retired, roleSetup>>

\* ReactionHandler.handleReactionAdd / handleReactionRemove is called with an event
Arrives(h, m, u, e, action) ==
    /\ Budget
    /\ FreeHandler(h)
    /\ events' = events + 1
    /\ UNCHANGED <<faults, roleEnabled, guildRoles, members, memberRoles>>
    /\ RouterFrame

NewCall(h, m, u, e, action) ==
    [IdleHandler EXCEPT !.msg = m, !.user = u, !.emoji = e, !.action = action,
                        !.calls = <<"roles">>, !.before = RolesOf(u),
                        !.overlapped = \E g \in Handlers : ~HandlerIdle(g)]

\* the calls in flight when another one starts have been overlapped
Overlap(h, rec) ==
    [g \in Handlers |->
        IF g = h THEN rec
        ELSE IF HandlerIdle(g) THEN handler[g]
        ELSE [handler[g] EXCEPT !.overlapped = TRUE]]

\* quick checks that let a bot through
EarlyExitNoBot(m, u) == ~roleEnabled \/ m # roleMessageId

\* _handleRoleAction, the quick checks: roles disabled, another message, a bot
EarlyExit(m, u) == ~roleEnabled \/ m # roleMessageId \/ u \in Bots

RoleEarlyExit(h, m, u, e, action) ==
    /\ Arrives(h, m, u, e, action)
    /\ EarlyExit(m, u)
    /\ handler' = Overlap(h, Routed(NewCall(h, m, u, e, action),
                                    roleEnabled /\ m = roleMessageId))

\* _handleRoleAction: no role is mapped to the emoji
RoleUnmapped(h, m, u, e, action) ==
    /\ Arrives(h, m, u, e, action)
    /\ ~EarlyExit(m, u)
    /\ e \notin DOMAIN roleEmojis
    /\ handler' = Overlap(h, Routed(NewCall(h, m, u, e, action), TRUE))

\* _handleRoleAction: await guild.members.fetch(user.id).catch(() => null)
RoleFetchMember(h, m, u, e, action) ==
    /\ Arrives(h, m, u, e, action)
    /\ ~EarlyExit(m, u)
    /\ e \in DOMAIN roleEmojis
    /\ handler' = Overlap(h, [NewCall(h, m, u, e, action) EXCEPT !.pc = "member"])

SetHandler(h, rec) == handler' = [handler EXCEPT ![h] = rec]

RoleOf(h) == roleEmojis[handler[h].emoji]

\* validateObjects finds the member and the role; the member is fetched again
RoleValidate(h) ==
    /\ handler[h].pc = "member"
    /\ handler[h].user \in members
    /\ RoleOf(h) \in guildRoles
    /\ SetHandler(h, [handler[h] EXCEPT !.pc = "refetch"])
    /\ UNCHANGED <<events, faults, roleEnabled, guildRoles, members, memberRoles>>
    /\ RouterFrame

\* the fetch gave null (the user is no member, or the call failed) or the role
\* does not exist: validateObjects reports it and the event is handled
RoleMissing(h) ==
    /\ handler[h].pc = "member"
    /\ \E failed \in BOOLEAN :
          /\ failed = (handler[h].user \in members /\ RoleOf(h) \in guildRoles)
          /\ MayFail(failed)
          /\ CountFault(failed)
    /\ SetHandler(h, Routed(handler[h], TRUE))
    /\ UNCHANGED <<events, roleEnabled, guildRoles, members, memberRoles>>
    /\ RouterFrame

\* a member that is never in the target state
NeverInTargetState(hasRole, action) == FALSE

\* _performRoleAction: add with the role, or remove without it
InTargetState(hasRole, action) ==
    \/ action = "add" /\ hasRole
    \/ action = "remove" /\ ~hasRole

\* the second fetch resolves; _performRoleAction tests member.roles.cache and
\* returns true, or awaits member.roles.add / member.roles.remove
RoleRefetch(h) ==
    /\ handler[h].pc = "refetch"
    /\ handler[h].user \in members
    /\ IF InTargetState(RoleOf(h) \in RolesOf(handler[h].user), handler[h].action)
       THEN SetHandler(h, Routed(handler[h], TRUE))
       ELSE SetHandler(h, [handler[h] EXCEPT !.pc = "roleCall", !.issued = @ + 1])
    /\ UNCHANGED <<events, faults, roleEnabled, guildRoles, members, memberRoles>>
    /\ RouterFrame

\* the second fetch rejects (the user left, or the call failed): the catch of
\* _handleRoleAction returns false
RoleRefetchThrow(h) ==
    /\ handler[h].pc = "refetch"
    /\ \E failed \in BOOLEAN :
          /\ failed = (handler[h].user \in members)
          /\ MayFail(failed)
          /\ CountFault(failed)
    /\ SetHandler(h, Routed(handler[h], FALSE))
    /\ UNCHANGED <<events, roleEnabled, guildRoles, members, memberRoles>>
    /\ RouterFrame

\* member.roles.add(role) / member.roles.remove(role)
RoleAfter(roles, role, action) ==
    IF action = "add" THEN roles \cup {role} ELSE roles \ {role}

\* the role call resolves: _performRoleAction returns true
RoleCall(h) ==
    /\ handler[h].pc = "roleCall"
    /\ handler[h].user \in members
    /\ memberRoles' = [memberRoles EXCEPT ![handler[h].user] =
                          RoleAfter(@, RoleOf(h), handler[h].action)]
    /\ SetHandler(h, Routed(handler[h], TRUE))
    /\ UNCHANGED <<events, faults, roleEnabled, guildRoles, members>>
    /\ RouterFrame

\* the role call rejects (the user left, a missing permission, a failed call):
\* the catch of _handleRoleAction returns false
RoleCallThrow(h) ==
    /\ handler[h].pc = "roleCall"
    /\ \E failed \in BOOLEAN :
          /\ failed = (handler[h].user \in members)
          /\ MayFail(failed)
          /\ CountFault(failed)
    /\ SetHandler(h, Routed(handler[h], FALSE))
    /\ UNCHANGED <<events, roleEnabled, guildRoles, members, memberRoles>>
    /\ RouterFrame

\* await this.fireboard.handleReactionAdd(reaction, user): it returns false, or
\* it rejects and the catch of ReactionHandler logs the error
FireboardCall(h) ==
    /\ handler[h].pc = "fireboard"
    /\ SetHandler(h, [handler[h] EXCEPT !.pc = "done"])
    /\ UNCHANGED <<events, faults, roleEnabled, guildRoles, members, memberRoles>>
    /\ RouterFrame

\* ReactionHandler.handleReactionAdd / handleReactionRemove returns
RouterReturn(h) ==
    /\ handler[h].pc = "done"
    /\ SetHandler(h, IdleHandler)
    /\ UNCHANGED <<events, faults, roleEnabled, guildRoles, members, memberRoles>>
    /\ RouterFrame

\* a member leaves the guild
MemberLeaves(u) ==
    /\ Budget
    /\ u \in members
    /\ members' = members \ {u}
    /\ memberRoles' = [memberRoles EXCEPT ![u] = {}]
    /\ events' = events + 1
    /\ UNCHANGED <<faults, roleEnabled, guildRoles, handler>>
    /\ RouterFrame

RolesInit ==
    /\ enabled = TRUE
    /\ reactions = [m \in Msgs |-> <<>>]
    /\ srcExists = Msgs
    /\ mirror = {}
    /\ nextMessageId = 1
    /\ store = {}
    /\ nextRowId = 1
    /\ processingMessages = {}
    /\ task = [t \in Tasks |-> IdleTask]
    /\ events = 0
    /\ faults = 0
    /\ calcCache = <<>>
    /\ calcExclude = FALSE
    /\ calcOut = Null
    /\ roleEnabled \in BOOLEAN
    /\ guildRoles \in {Roles, {"r1"}}
    /\ members = Humans
    /\ memberRoles \in {[u \in Humans |-> {}],
                         [u \in Humans |-> IF u = "a" THEN {"r1"} ELSE {}]}
    /\ handler = [h \in Handlers |-> IdleHandler]
    /\ dbCall = Null
    /\ retired = {}
    /\ roleSetup = Null

\* the reactions given and taken back while the bot runs
RouterInputs(m) ==
    IF m = roleMessageId
    THEN {<<"a", "up">>, <<"a", "fire">>, <<"a", "x">>, <<"bot", "up">>}
    ELSE {<<"a", "up">>, <<"bot", "up">>}

RolesNext ==
    \/ \E h \in Handlers, m \in RouterMsgs :
          \E r \in RouterInputs(m), action \in {"add", "remove"} :
             \/ RoleEarlyExit(h, m, r[1], r[2], action)
             \/ RoleUnmapped(h, m, r[1], r[2], action)
             \/ RoleFetchMember(h, m, r[1], r[2], action)
    \/ \E h \in Handlers :
          \/ RoleValidate(h) \/ RoleMissing(h)
          \/ RoleRefetch(h) \/ RoleRefetchThrow(h)
          \/ RoleCall(h) \/ RoleCallThrow(h)
          \/ FireboardCall(h) \/ RouterReturn(h)
    \/ \E u \in Humans : MemberLeaves(u)

SpecRoles == RolesInit /\ [][RolesNext]_vars

(***************************************************************************)
(* FireboardDatabase called on its own: one call after the other, each     *)
(* with or without a failure of the storage underneath.                    *)
(***************************************************************************)
\* catches that report a failed update or delete as done
ReportDone(op) ==
    CASE op \in {"getEntry", "createEntry"} -> Null
      [] op \in {"updateEntry", "deleteEntry", "deleteEntryObject",
                  "updateValidReactionCount", "incrementValidReactionCount",
                  "decrementValidReactionCount"} -> TRUE
      [] op = "getAllEntries" -> <<>>
      [] op = "getStats" -> [totalEntries |-> 0, recentEntries |-> 0]

\* what the catch of each operation returns
OnError(op) ==
    CASE op \in {"getEntry", "createEntry"} -> Null
      [] op \in {"updateEntry", "deleteEntry", "deleteEntryObject",
                  "updateValidReactionCount", "incrementValidReactionCount",
                  "decrementValidReactionCount"} -> FALSE
      [] op = "getAllEntries" -> <<>>
      [] op = "getStats" -> [totalEntries |-> 0, recentEntries |-> 0]

\* createEntry with the storage working: findOrCreate, and getEntry after the
\* unique index on fireboardMessageId refused the insert
createEntry(rows, id, messageId, fireboardMessageId, authorId, validReactionCount) ==
    LET row == NewRow(id, messageId, fireboardMessageId, authorId, validReactionCount)
    IN  IF findOne(rows, messageId) # Null
        THEN [rows |-> rows, result |-> findOne(rows, messageId)]
        ELSE IF UniqueViolation(rows, row)
        THEN [rows |-> rows, result |-> getEntry(rows, messageId, FALSE)]
        ELSE [rows |-> rows \cup {row}, result |-> row]

\* FireboardEntry.destroy({ where: { messageId } })
deleteEntry(rows, messageId) == rows \ EntriesFor(rows, messageId)

\* a call that reports a change whatever it found
AlwaysAffected(rows, messageId) == TRUE

\* updatedRowsCount > 0, result > 0
Affected(rows, messageId) == EntriesFor(rows, messageId) # {}

\* the update is refused by the unique index on fireboardMessageId
UpdateRefused(rows, messageId, fireboardMessageId) ==
    /\ Affected(rows, messageId)
    /\ \E r \in rows : r.messageId # messageId /\ r.fireboardMessageId = fireboardMessageId

\* getStats: every row of a run was created within the last seven days
getStats(rows) == [totalEntries |-> Cardinality(rows), recentEntries |-> Cardinality(rows)]

\* the arguments the calls are given
StoreCounts == {1, 2}
StoreAmounts == {0, 1, 2}
StoreMirrorIds == {1, 2}
StoreRowIds == 1..(MaxEvents + 1)

\* a call is made
Called(op, messageId, id, storeError, result) ==
    /\ Budget
    /\ events' = events + 1
    /\ faults' = faults
    /\ dbCall' = [op |-> op, messageId |-> messageId, id |-> id, error |-> storeError,
                   result |-> IF storeError THEN OnError(op) ELSE result, before |-> store,
                   amount |-> 0]
    /\ UNCHANGED <<enabled, reactions, srcExists, mirror, nextMessageId,
                   processingMessages, task, calcVars, roleVars, retired, roleSetup>>

\* a call that changes the count of the entry of messageId is made
CalledCount(op, messageId, amount, storeError) ==
    /\ Budget
    /\ events' = events + 1
    /\ faults' = faults
    /\ dbCall' = [op |-> op, messageId |-> messageId, id |-> 0, error |-> storeError,
                   result |-> IF storeError THEN OnError(op)
                              ELSE Affected(store, messageId),
                   before |-> store, amount |-> amount]
    /\ UNCHANGED <<enabled, reactions, srcExists, mirror, nextMessageId, nextRowId,
                   processingMessages, task, calcVars, roleVars, retired, roleSetup>>

StoreGet(messageId, storeError) ==
    /\ Called("getEntry", messageId, 0, storeError, findOne(store, messageId))
    /\ UNCHANGED <<store, nextRowId>>

StoreCreate(messageId, fireboardMessageId, validReactionCount, storeError) ==
    LET done == createEntry(store, nextRowId, messageId, fireboardMessageId,
                            AuthorOf(messageId), validReactionCount)
    IN  /\ Called("createEntry", messageId, 0, storeError, done.result)
        /\ store' = IF storeError THEN store ELSE done.rows
        /\ nextRowId' = IF store' = store THEN nextRowId ELSE nextRowId + 1

StoreUpdate(messageId, fireboardMessageId, validReactionCount, storeError) ==
    /\ storeError \/ ~UpdateRefused(store, messageId, fireboardMessageId)
    /\ Called("updateEntry", messageId, 0, storeError, Affected(store, messageId))
    /\ store' = IF storeError THEN store
                ELSE updateEntry(store, messageId, fireboardMessageId, validReactionCount)
    /\ UNCHANGED nextRowId

StoreDelete(messageId, storeError) ==
    /\ Called("deleteEntry", messageId, 0, storeError, Affected(store, messageId))
    /\ store' = IF storeError THEN store ELSE deleteEntry(store, messageId)
    /\ UNCHANGED nextRowId

\* deleteEntryObject(entry) with an entry read at some earlier time: entry.destroy()
\* deletes by primary key and resolves whether or not the row is still there
StoreDeleteObject(id, storeError) ==
    /\ id < nextRowId
    /\ Called("deleteEntryObject", "none", id, storeError, TRUE)
    /\ store' = IF storeError THEN store ELSE deleteEntryObject(store, [id |-> id])
    /\ UNCHANGED nextRowId

StoreList(storeError) ==
    /\ Called("getAllEntries", "none", 0, storeError, NewestFirst(store))
    /\ UNCHANGED <<store, nextRowId>>

StoreStats(storeError) ==
    /\ Called("getStats", "none", 0, storeError, getStats(store))
    /\ UNCHANGED <<store, nextRowId>>

StoreUpdateCount(messageId, validReactionCount, storeError) ==
    /\ CalledCount("updateValidReactionCount", messageId, validReactionCount, storeError)
    /\ store' = IF storeError THEN store
                ELSE updateValidReactionCount(store, messageId, validReactionCount)

StoreIncrement(messageId, increment, storeError) ==
    /\ CalledCount("incrementValidReactionCount", messageId, increment, storeError)
    /\ store' = IF storeError THEN store
                ELSE incrementValidReactionCount(store, messageId, increment)

StoreDecrement(messageId, decrement, storeError) ==
    /\ CalledCount("decrementValidReactionCount", messageId, decrement, storeError)
    /\ store' = IF storeError THEN store
                ELSE decrementValidReactionCount(store, messageId, decrement)

StoreInit ==
    /\ enabled = TRUE
    /\ reactions = [m \in Msgs |-> <<>>]
    /\ srcExists = Msgs
    /\ mirror = {}
    /\ nextMessageId = 1
    /\ store \in {{}, {InitEntry}}
    /\ nextRowId = InitEntry.id + 1
    /\ processingMessages = {}
    /\ task = [t \in Tasks |-> IdleTask]
    /\ events = 0
    /\ faults = 0
    /\ calcCache = <<>>
    /\ calcExclude = FALSE
    /\ calcOut = Null
    /\ RolesUnused

StoreNext ==
    \/ \E m \in Msgs, storeError \in BOOLEAN : StoreGet(m, storeError)
    \/ \E m \in Msgs, f \in StoreMirrorIds, c \in StoreCounts, storeError \in BOOLEAN :
          StoreCreate(m, f, c, storeError)
    \/ \E m \in Msgs, f \in StoreMirrorIds, c \in StoreCounts, storeError \in BOOLEAN :
          StoreUpdate(m, f, c, storeError)
    \/ \E m \in Msgs, storeError \in BOOLEAN : StoreDelete(m, storeError)
    \/ \E id \in StoreRowIds, storeError \in BOOLEAN : StoreDeleteObject(id, storeError)
    \/ \E storeError \in BOOLEAN : StoreList(storeError)
    \/ \E storeError \in BOOLEAN : StoreStats(storeError)
    \/ \E m \in Msgs, c \in StoreAmounts, storeError \in BOOLEAN :
          StoreUpdateCount(m, c, storeError)
    \/ \E m \in Msgs, c \in StoreAmounts, storeError \in BOOLEAN :
          StoreIncrement(m, c, storeError)
    \/ \E m \in Msgs, c \in StoreAmounts, storeError \in BOOLEAN :
          StoreDecrement(m, c, storeError)

SpecStore == StoreInit /\ [][StoreNext]_vars

(***************************************************************************)
(* Fireboard.refreshMessage(channelId, messageId), the operation behind    *)
(* the /fireboard refresh command. The command is in the source, the       *)
(* method is not: it is written here as the specification describes it     *)
(* (re-fetch the source message; if it is missing delete the stray entry;  *)
(* else recompute and apply the qualification, holding the message's       *)
(* processing slot), over the manager's addToFireboard,                    *)
(* updateFireboardEntry and removeFireboardEntry.                          *)
(***************************************************************************)
Statuses == {"added", "updated", "deleted", "not eligible", "not found", "skipped"}

\* the command: the fireboard is disabled or the message is being processed, and
\* the call is skipped; else it takes the message's slot
refreshMessage(t, m) ==
    /\ Budget
    /\ CanStart(t)
    /\ events' = events + 1
    /\ IF ~enabled \/ IsProcessing(processingMessages, m)
       THEN /\ Start(t, [IdleTask EXCEPT !.pc = "status", !.op = "refreshMessage",
                                         !.msg = m, !.outcome = "skipped"])
            /\ UNCHANGED processingMessages
       ELSE /\ Start(t, [IdleTask EXCEPT !.pc = "one_fetch", !.op = "refreshMessage",
                                         !.msg = m])
            /\ processingMessages' = processingMessages \cup {m}
    /\ UNCHANGED <<enabled, reactions, srcExists, mirror, nextMessageId, store, nextRowId,
                   faults, otherVars>>

\* the source message is fetched again and its valid reactions are counted; a
\* message that is gone is "not found"
RefreshMessageFetch(t) ==
    /\ task[t].pc = "one_fetch"
    /\ IF task[t].msg \in srcExists
       THEN Set(t, [task[t] EXCEPT
                      !.pc = "one_qualify",
                      !.validReactions =
                          calculateValidReactions(reactions[task[t].msg], validReactions,
                                                  settings.excludeAuthorReactions,
                                                  AuthorOf(task[t].msg))])
       ELSE Set(t, [task[t] EXCEPT !.pc = "one_stray", !.outcome = "not found"])
    /\ UNCHANGED <<Platform, mirror, nextMessageId, store, nextRowId, processingMessages,
                   faults>>

\* the stray entry of a message that is gone is removed
RefreshMessageStray(t) ==
    /\ task[t].pc = "one_stray"
    /\ \E storeError \in BOOLEAN :
          /\ MayFail(storeError)
          /\ storeError => findOne(store, task[t].msg) # Null
          /\ CountFault(storeError)
          /\ LET entry == getEntry(store, task[t].msg, storeError)
             IN Set(t, [task[t] EXCEPT !.existingEntry = entry, !.entry = entry,
                          !.pc = IF entry # Null THEN "rm_fetch" ELSE "fin"])
    /\ UNCHANGED <<Platform, mirror, nextMessageId, store, nextRowId, processingMessages>>

\* what the call is about to do, by the branch the qualification takes
Attempt(pc) ==
    CASE pc = "add_get" -> "added"
      [] pc = "upd_fetch" -> "updated"
      [] pc = "rm_fetch" -> "deleted"
      [] OTHER -> "not eligible"

\* the entry is read and the qualification applied
RefreshMessageQualify(t) ==
    /\ task[t].pc = "one_qualify"
    /\ \E storeError \in BOOLEAN :
          /\ MayFail(storeError)
          /\ storeError => findOne(store, task[t].msg) # Null
          /\ CountFault(storeError)
          /\ LET existingEntry == getEntry(store, task[t].msg, storeError)
                 branch == QualifyBranch(Total(t), existingEntry, "add")
             IN Set(t, [task[t] EXCEPT !.existingEntry = existingEntry,
                          !.entry = existingEntry, !.pc = branch,
                          !.outcome = Attempt(branch)])
    /\ UNCHANGED <<Platform, mirror, nextMessageId, store, nextRowId, processingMessages>>

\* the status: what was attempted when the manager returned true, "skipped" when it
\* returned false or threw
StatusOf(rec) ==
    IF rec.outcome \in {"not found", "not eligible"} THEN rec.outcome
    ELSE IF rec.result = "true" THEN rec.outcome
    ELSE "skipped"

\* the slot is given back and the status returned to the command
RefreshMessageStatus(t) ==
    /\ task[t].pc = "fin" /\ task[t].op = "refreshMessage"
    /\ processingMessages' = Release(processingMessages, task[t].msg)
    /\ Set(t, [task[t] EXCEPT !.pc = "status", !.outcome = StatusOf(task[t])])
    /\ UNCHANGED <<enabled, reactions, srcExists, mirror, nextMessageId, store,
                   nextRowId, events, faults, otherVars>>

\* interaction.reply(`Message ${messageId} was ${status}.`)
RefreshMessageReply(t) ==
    /\ task[t].pc = "status"
    /\ Set(t, IdleTask)
    /\ UNCHANGED <<Platform, mirror, nextMessageId, store, nextRowId, processingMessages,
                   faults>>

\* what the command may find: the bot was offline while reactions changed, a source
\* message or the mirror message was deleted
RefreshMessageInit ==
    /\ enabled \in BOOLEAN
    /\ reactions \in {f \in [Msgs -> UNION {InitCaches(m) : m \in Msgs} \cup {<<>>}] :
                         \A m \in Msgs : f[m] \in InitCaches(m) \cup {<<>>}}
    /\ srcExists \in {Msgs, {"m1"}, {"m2"}}
    /\ store = {InitEntry}
    /\ nextRowId = InitEntry.id + 1
    /\ mirror \in {{}, send({}, InitEntry.fireboardMessageId,
                             [source |-> InitEntry.messageId,
                              total |-> InitEntry.validReactionCount])}
    /\ nextMessageId = InitEntry.fireboardMessageId + 1
    /\ processingMessages = {}
    /\ task = [t \in Tasks |-> IdleTask]
    /\ events = 0
    /\ faults = 0
    /\ calcCache = <<>>
    /\ calcExclude = FALSE
    /\ calcOut = Null
    /\ RolesUnused

RefreshMessageNext ==
    \/ \E t \in Tasks, m \in Msgs : refreshMessage(t, m)
    \/ \E t \in Tasks :
          \/ RefreshMessageFetch(t) \/ RefreshMessageStray(t) \/ RefreshMessageQualify(t)
          \/ AddGetEntry(t) \/ AddSend(t) \/ AddSendThrow(t) \/ AddChannelThrow(t)
          \/ CreateFind(t) \/ CreateInsert(t)
          \/ UpdateFetch(t) \/ UpdateFetchThrow(t) \/ UpdateEdit(t) \/ UpdateEditThrow(t)
          \/ UpdateCount(t)
          \/ RecreateSend(t) \/ RecreateSendThrow(t) \/ RecreateChannelThrow(t)
          \/ RecreateUpdate(t)
          \/ RemoveChannelThrow(t) \/ RemoveFetch(t) \/ RemoveDelete(t) \/ RemoveDestroy(t)
          \/ RefreshMessageStatus(t) \/ RefreshMessageReply(t)

SpecRefreshMessage == RefreshMessageInit /\ [][RefreshMessageNext]_vars

(***************************************************************************)
(* Fireboard.processReactionTracking of src/reactions/fireboard.js, the    *)
(* pass of the one-class Fireboard: the message is fetched before the      *)
(* processing set is read, and the outer catch deletes the message id      *)
(* from the set. The body of the inner try (counting, adding, updating,    *)
(* removing) is one step here: only its end, normal or by an exception,    *)
(* matters to the set.                                                     *)
(***************************************************************************)
\* handleReactionAdd / handleReactionRemove: enabled, the pass starts with
\* await message.fetch()
TrackingStart(t, m, u, e, action) ==
    /\ ReactionChange(m, u, e, action)
    /\ enabled
    /\ CanStart(t)
    /\ Start(t, [IdleTask EXCEPT !.pc = "trk_fetch", !.op = action, !.msg = m])
    /\ UNCHANGED <<enabled, srcExists, mirror, nextMessageId, store, nextRowId,
                   processingMessages, faults, otherVars>>

\* the fetches resolve: a message already in the set is skipped, else it is added
TrackingFetch(t) ==
    /\ task[t].pc = "trk_fetch"
    /\ IF IsProcessing(processingMessages, task[t].msg)
       THEN /\ Set(t, IdleTask)
            /\ UNCHANGED processingMessages
       ELSE /\ Set(t, [task[t] EXCEPT !.pc = "trk_body"])
            /\ processingMessages' = processingMessages \cup {task[t].msg}
    /\ UNCHANGED <<Platform, mirror, nextMessageId, store, nextRowId, faults>>

\* message.fetch() or messageReaction.fetch() rejects: the outer catch deletes the
\* message id from the set
TrackingFetchThrow(t) ==
    /\ task[t].pc = "trk_fetch"
    /\ MayFail(TRUE) /\ CountFault(TRUE)
    /\ processingMessages' = Release(processingMessages, task[t].msg)
    /\ Set(t, IdleTask)
    /\ UNCHANGED <<Platform, mirror, nextMessageId, store, nextRowId>>

\* the inner try runs to its end, or an exception leaves it
TrackingBody(t) ==
    /\ task[t].pc = "trk_body"
    /\ \E failed \in BOOLEAN :
          /\ MayFail(failed)
          /\ CountFault(failed)
          /\ Set(t, [task[t] EXCEPT !.pc = "trk_finally", !.threw = failed])
    /\ UNCHANGED <<Platform, mirror, nextMessageId, store, nextRowId, processingMessages>>

\* the finally of the inner try, and after an exception the outer catch once more
TrackingFinally(t) ==
    /\ task[t].pc = "trk_finally"
    /\ processingMessages' = Release(processingMessages, task[t].msg)
    /\ Set(t, IdleTask)
    /\ UNCHANGED <<Platform, mirror, nextMessageId, store, nextRowId, faults>>

TrackingInit ==
    /\ enabled = TRUE
    /\ reactions \in {f \in [Msgs -> UNION {InitCaches(m) : m \in Msgs}] :
                         \A m \in Msgs : f[m] \in InitCaches(m)}
    /\ srcExists = Msgs
    /\ store = {InitEntry}
    /\ nextRowId = InitEntry.id + 1
    /\ mirror = send({}, InitEntry.fireboardMessageId,
                     [source |-> InitEntry.messageId, total |-> InitEntry.validReactionCount])
    /\ nextMessageId = InitEntry.fireboardMessageId + 1
    /\ processingMessages = {}
    /\ task = [t \in Tasks |-> IdleTask]
    /\ events = 0
    /\ faults = 0
    /\ calcCache = <<>>
    /\ calcExclude = FALSE
    /\ calcOut = Null
    /\ RolesUnused

TrackingNext ==
    \/ \E t \in Tasks, m \in Msgs :
          \E r \in ReactionInputs(m), action \in {"add", "remove"} :
             TrackingStart(t, m, r[1], r[2], action)
    \/ \E t \in Tasks :
          \/ TrackingFetch(t) \/ TrackingFetchThrow(t)
          \/ TrackingBody(t) \/ TrackingFinally(t)

SpecTracking == TrackingInit /\ [][TrackingNext]_vars

(***************************************************************************)
(* ReactionRoles.initialize and the reaction-role message: the instance    *)
(* that keeps the settings object of config.js and writes a new message id *)
(* back through configUtils. Message ids are numbers, 0 stands for null.   *)
(* roleSetup holds pc, this.settings.messageId (settingsMessageId), the    *)
(* messageId in config.js (configMessageId), the messages of the role      *)
(* channel, the message _getOrCreateMessage returned, whether the fetch of *)
(* the configured message failed (missing) and whether the message was     *)
(* sent by this initialize, and the last reaction event with its result.   *)
(***************************************************************************)
\* the messages the role channel may hold when the process starts
SetupChannels == {{}, {1}, {1, 2}}

SetupFrame ==
    UNCHANGED <<enabled, reactions, srcExists, mirror, store, nextRowId,
                processingMessages, task, calcVars, roleVars, dbCall, retired>>

\* the process starts: this.settings = reactionRoleSettings, as config.js has it
Construct ==
    /\ Budget
    /\ roleSetup.pc \in {"off", "ready"}
    /\ events' = events + 1
    /\ roleSetup' = [roleSetup EXCEPT !.pc = "init",
                                      !.settingsMessageId = roleSetup.configMessageId,
                                      !.message = 0, !.created = FALSE,
                                      !.missing = FALSE,
                                      !.reacted = 0, !.claimed = "none"]
    /\ UNCHANGED <<nextMessageId, faults>>
    /\ SetupFrame

\* _getOrCreateMessage, the fetch of the configured message: any rejection clears
\* this.settings.messageId
InitializeFetch ==
    /\ roleSetup.pc = "init"
    /\ \E failed \in BOOLEAN :
          /\ MayFail(failed)
          /\ failed => roleSetup.settingsMessageId \in roleSetup.channel
          /\ CountFault(failed)
          /\ roleSetup' =
                IF roleSetup.settingsMessageId = 0
                THEN [roleSetup EXCEPT !.pc = "create"]
                ELSE IF roleSetup.settingsMessageId \in roleSetup.channel /\ ~failed
                THEN [roleSetup EXCEPT !.pc = "ready",
                                       !.message = roleSetup.settingsMessageId]
                ELSE [roleSetup EXCEPT !.pc = "create", !.settingsMessageId = 0,
                                       !.missing = TRUE]
    /\ UNCHANGED <<nextMessageId, events>>
    /\ SetupFrame

\* what this.settings.messageId is after the new message was sent: the instance
\* leaves it as it was and hands the id to updateReactionRoleMessageId only
AfterSend(settingsMessageId, id) == settingsMessageId

\* updateConfigField: loadConfig gives a fresh object, the field is set in it and
\* saveConfig writes the file; false when the write fails
updateReactionRoleMessageId(configMessageId, id, saved) ==
    IF saved THEN id ELSE configMessageId

\* _getOrCreateMessage, the creation: this.channel.send, updateReactionRoleMessageId
InitializeSend ==
    /\ roleSetup.pc = "create"
    /\ \E writeError \in BOOLEAN :
          /\ MayFail(writeError)
          /\ CountFault(writeError)
          /\ roleSetup' =
                [roleSetup EXCEPT
                   !.pc = "ready",
                   !.channel = @ \cup {nextMessageId},
                   !.message = nextMessageId,
                   !.created = TRUE,
                   !.settingsMessageId = AfterSend(@, nextMessageId),
                   !.configMessageId =
                       updateReactionRoleMessageId(@, nextMessageId, ~writeError)]
    /\ nextMessageId' = nextMessageId + 1
    /\ UNCHANGED events
    /\ SetupFrame

\* this.channel.send rejects: initialize rejects, the instance stays in use
InitializeSendThrow ==
    /\ roleSetup.pc = "create"
    /\ MayFail(TRUE) /\ CountFault(TRUE)
    /\ roleSetup' = [roleSetup EXCEPT !.pc = "ready"]
    /\ UNCHANGED <<nextMessageId, events>>
    /\ SetupFrame

\* a moderator deletes a message of the role channel
RoleMessageDeleted(id) ==
    /\ Budget
    /\ id \in roleSetup.channel
    /\ events' = events + 1
    /\ roleSetup' = [roleSetup EXCEPT !.channel = @ \ {id}]
    /\ UNCHANGED <<nextMessageId, faults>>
    /\ SetupFrame

\* _handleRoleAction, its early exit: the value returned for a reaction on message id
RoleClaims(settingsMessageId, id, bot) ==
    IF id # settingsMessageId \/ bot
    THEN id = settingsMessageId
    ELSE TRUE

\* a reaction event on a message of the role channel reaches _handleRoleAction
RoleReaction(id, bot) ==
    /\ Budget
    /\ roleSetup.pc = "ready"
    /\ id \in roleSetup.channel
    /\ events' = events + 1
    /\ roleSetup' = [roleSetup EXCEPT
                       !.reacted = id,
                       !.claimed = IF RoleClaims(roleSetup.settingsMessageId, id, bot)
                                   THEN "handled" ELSE "not handled"]
    /\ UNCHANGED <<nextMessageId, faults>>
    /\ SetupFrame

SetupInit ==
    /\ enabled = TRUE
    /\ reactions = [m \in Msgs |-> <<>>]
    /\ srcExists = Msgs
    /\ mirror = {}
    /\ nextMessageId = 3
    /\ store = {}
    /\ nextRowId = 1
    /\ processingMessages = {}
    /\ task = [t \in Tasks |-> IdleTask]
    /\ events = 0
    /\ faults = 0
    /\ calcCache = <<>>
    /\ calcExclude = FALSE
    /\ calcOut = Null
    /\ roleEnabled = FALSE
    /\ guildRoles = {}
    /\ members = {}
    /\ memberRoles = <<>>
    /\ handler = <<>>
    /\ dbCall = Null
    /\ retired = {}
    /\ \E configMessageId \in {0, 1}, channel \in SetupChannels :
          roleSetup = [pc |-> "off", settingsMessageId |-> 0,
                       configMessageId |-> configMessageId, channel |-> channel,
                       message |-> 0, created |-> FALSE, missing |-> FALSE,
                       reacted |-> 0,
                       claimed |-> "none"]

SetupNext ==
    \/ Construct
    \/ InitializeFetch
    \/ InitializeSend
    \/ InitializeSendThrow
    \/ \E id \in 1..(MaxEvents + 3) : RoleMessageDeleted(id)
    \/ \E id \in 1..(MaxEvents + 3), bot \in BOOLEAN : RoleReaction(id, bot)

SpecInitialize == SetupInit /\ [][SetupNext]_vars

(***************************************************************************)
(* Claims about the engine (checked under Spec)                            *)
(***************************************************************************)
\* the entries stored for the message task t works on
EntriesOf(t) == EntriesFor(store, task[t].msg)

\* no call failed in the run and no handler of another kind ran beside task t
Undisturbed(t) == faults = 0 /\ ~task[t].interfered

\* task t is a reaction pass that has finished its work and still holds its lock
PassDone(t) == task[t].pc = "fin" /\ task[t].op \in PassOps

\* task t takes a step of its own
Steps(t) == task'[t].pc # task[t].pc

\* C1: a reaction-add pass that finds no entry and a count at or above the
\* threshold sends exactly one mirror message and leaves exactly one entry, the
\* one pointing at that mirror, also when further events for the message arrive
\* while the pass runs.
C1_AddCreatesOneEntry ==
    \A t \in Tasks :
       (PassDone(t) /\ task[t].op = "add" /\ Undisturbed(t)
           /\ task[t].existingEntry = Null /\ Total(t) >= settings.threshold)
       => /\ task[t].sent = 1
          /\ \E row \in store :
                /\ EntriesOf(t) = {row}
                /\ row.fireboardMessageId = task[t].fireboardMessage
                /\ row.validReactionCount = Total(t)

C1_Witness ==
    \E t \in Tasks :
       /\ PassDone(t) /\ task[t].op = "add" /\ Undisturbed(t)
       /\ task[t].existingEntry = Null /\ Total(t) >= settings.threshold
       /\ task[t].dropped
       /\ task[t].sent = 1
       /\ Cardinality(EntriesOf(t)) = 1

\* a handler between its first look at the store and its last write
InProgress(t) == task[t].pc \notin {"idle", "fin", "ref_list", "ref_done"}

\* C2: no two handlers that change the entry of one source message are in
\* progress at the same time.
C2_OneMutatorPerMessage ==
    \A t, q \in Tasks :
       (t # q /\ InProgress(t) /\ InProgress(q)) => task[t].msg # task[q].msg

\* C3: a reaction pass that finds an entry and a count below the threshold
\* deletes the mirror message and the entry; a remove pass that finds no entry
\* changes neither the store nor the fireboard channel.
C3_Removed ==
    \A t \in Tasks :
       (PassDone(t) /\ Undisturbed(t)
           /\ task[t].existingEntry # Null /\ Total(t) < settings.threshold)
       => /\ EntriesOf(t) = {}
          /\ ~MirrorExists(task[t].existingEntry.fireboardMessageId)

C3_RemoveWithoutEntry ==
    \A t \in Tasks :
       (Steps(t) /\ task[t].op = "remove"
           /\ task[t].existingEntry = Null /\ task'[t].existingEntry = Null)
       => UNCHANGED <<store, mirror>>

Serial(t) == PassDone(t) /\ Undisturbed(t) /\ ~task[t].dropped

\* C4 as stated: after each processed reaction event an entry exists exactly
\* when the recomputed count is at or above the threshold.
C4_EntryIffQualifies ==
    \A t \in Tasks :
       Serial(t) => (EntriesOf(t) # {} <=> Total(t) >= settings.threshold)

\* C4: after each processed reaction event an entry exists exactly when the
\* recomputed count is at or above the threshold and the event was an add or
\* an entry existed before the event.
C4_EntryIffQualifiesAndAddOrExisting ==
    \A t \in Tasks :
       Serial(t) => (EntriesOf(t) # {} <=>
                        /\ Total(t) >= settings.threshold
                        /\ (task[t].op = "add" \/ task[t].existingEntry # Null))

C4_Witness ==
    \E t \in Tasks :
       /\ Serial(t) /\ task[t].op = "remove"
       /\ task[t].existingEntry = Null
       /\ Total(t) >= settings.threshold
       /\ EntriesOf(t) = {}

\* the embed task t renders for its message
EmbedOf(t) == createFireboardEmbed(task[t].msg, task[t].validReactions)

\* C5: a reaction pass that finds an entry and a count at or above the threshold
\* keeps that one entry with its messageId and authorId, stores the recomputed
\* total in it, and either edits the mirror message in place and sends nothing,
\* or - only when the mirror message is missing - sends one new mirror message
\* and points the entry at it.
C5_UpdatesInPlaceOrRepoints ==
    \A t \in Tasks :
       /\ (PassDone(t) /\ Undisturbed(t) /\ ~task[t].threw
              /\ task[t].existingEntry # Null /\ Total(t) >= settings.threshold)
          => \E row \in store :
                /\ EntriesOf(t) = {row}
                /\ row.id = task[t].existingEntry.id
                /\ row.messageId = task[t].existingEntry.messageId
                /\ row.authorId = task[t].existingEntry.authorId
                /\ row.validReactionCount = Total(t)
                /\ \A x \in mirror : x.id = row.fireboardMessageId => x.embed = EmbedOf(t)
                /\ IF task[t].sent = 0
                   THEN row.fireboardMessageId = task[t].existingEntry.fireboardMessageId
                   ELSE /\ task[t].sent = 1
                        /\ row.fireboardMessageId = task[t].fireboardMessage
                        /\ row.fireboardMessageId # task[t].existingEntry.fireboardMessageId
       /\ (task[t].op \in PassOps /\ task[t].pc \in {"rec_send", "rec_update"}
              /\ Undisturbed(t) /\ task[t].existingEntry # Null)
          => ~MirrorExists(task[t].existingEntry.fireboardMessageId)

C5_Witness ==
    \E t \in Tasks :
       /\ PassDone(t) /\ Undisturbed(t) /\ ~task[t].threw
       /\ task[t].existingEntry # Null /\ Total(t) >= settings.threshold
       /\ task[t].sent = 1
       /\ MirrorExists(task[t].fireboardMessage)
       /\ \E row \in store : /\ EntriesOf(t) = {row}
                             /\ row.fireboardMessageId = task[t].fireboardMessage
                             /\ row.validReactionCount # task[t].existingEntry.validReactionCount

\* C6: handleMessageDelete never lets an exception escape; with an entry for the
\* message it leaves neither the entry nor the mirror message, also when the
\* mirror message was deleted before; with no entry it changes neither the
\* store nor the fireboard channel.
C6_Deleted ==
    \A t \in Tasks :
       (task[t].pc = "fin" /\ task[t].op = "delete")
       => /\ ~task[t].threw
          /\ (Undisturbed(t) /\ task[t].entry # Null)
             => /\ EntriesOf(t) = {}
                /\ ~MirrorExists(task[t].entry.fireboardMessageId)

C6_DeleteWithoutEntry ==
    \A t \in Tasks :
       (Steps(t) /\ task[t].op = "delete"
           /\ task[t].entry = Null /\ task'[t].entry = Null)
       => UNCHANGED <<store, mirror>>

C6_DeleteRemovesEntry == []C6_Deleted /\ [][C6_DeleteWithoutEntry]_vars

\* the handler found the entry, did not find the mirror message, and removed the entry
C6_Witness ==
    \E t \in Tasks :
       /\ task[t].pc = "fin" /\ task[t].op = "delete" /\ Undisturbed(t)
       /\ task[t].entry # Null
       /\ task[t].fireboardMessage = 0
       /\ ~task[t].threw
       /\ EntriesOf(t) = {}

\* C7: the store never holds two entries with the same messageId or the same
\* fireboardMessageId.
C7_UniqueEntries ==
    \A r1, r2 \in store :
       (r1.messageId = r2.messageId \/ r1.fireboardMessageId = r2.fireboardMessageId)
       => r1 = r2

\* two entries are stored and a second insert for one of them was refused
C7_Witness ==
    /\ Cardinality(store) = 2
    /\ \E t \in Tasks : task[t].pc = "add_refind"

\* C8: a createEntry that ends without a storage error never throws and leaves
\* exactly one row for the message, which it returns: the row it inserted,
\* carrying its own mirror message, or - when a row was found or its insert was
\* refused - the other caller's row, carrying the other caller's mirror message.
C8_CreateEntryStep ==
    \A t \in Tasks :
       (task[t].pc \in {"add_find", "add_insert", "add_refind"}
           /\ task'[t].pc = "fin" /\ faults' = faults)
       => /\ ~task'[t].threw
          /\ IF task[t].pc = "add_insert"
             THEN /\ store' # store
                  /\ EntriesFor(store', task[t].msg) = {task'[t].entry}
                  /\ task'[t].entry.fireboardMessageId = task[t].fireboardMessage
             ELSE /\ store' = store
                  /\ EntriesFor(store, task[t].msg) # {}
                     => /\ EntriesFor(store, task[t].msg) = {task'[t].entry}
                        /\ task'[t].entry.fireboardMessageId # task[t].fireboardMessage
                        /\ task'[t].result = "true"

C8_CreateEntryAtomic == [][C8_CreateEntryStep]_vars

\* two manual adds, neither holding a lock, raced: one inserted, the other was
\* refused and returned the first one's row
C8_Witness ==
    \E t, q \in Tasks :
       /\ task[t].op = "manual" /\ task[q].op = "manual"
       /\ task[t].msg = task[q].msg
       /\ task[t].pc = "fin" /\ task[q].pc = "fin"
       /\ task[t].created = "created" /\ task[q].created = "refound"
       /\ task[q].entry = task[t].entry
       /\ task[q].entry.fireboardMessageId # task[q].fireboardMessage
       /\ EntriesOf(q) = {task[q].entry}

(***************************************************************************)
(* Claims about calculateValidReactions (checked under SpecCalc)           *)
(***************************************************************************)
ValidEmojiSet == Range(validReactions)

\* the users that reacted on the message under calculation with a valid emoji
ReactedValid == {u \in Users : \E e \in ValidEmojiSet : u \in UsersOf(calcCache, e)}

\* the users the calculation may count
Qualifying == ReactedValid \ (IF calcExclude THEN {CalcAuthor} ELSE {})

RawValidCount ==
    calculateTotalCount([i \in DOMAIN ValidReactionData(calcCache, validReactions) |->
        [emoji |-> ValidReactionData(calcCache, validReactions)[i].emoji,
         count |-> Cardinality(ValidReactionData(calcCache, validReactions)[i].users)]])

\* C9: every user is counted under at most one valid emoji, the counts sum to the
\* number of distinct qualifying users that reacted with a valid emoji, each emoji's
\* count is the number of users attributed to it, and an emoji outside the valid set
\* gets no entry and no attribution.
C9_DedupTotal ==
    calcOut # Null =>
        /\ calculateTotalCount(calcOut.list) = Cardinality(Qualifying)
        /\ {p.user : p \in calcOut.map} = Qualifying
        /\ \A p, q \in calcOut.map : p.user = q.user => p.emoji = q.emoji
        /\ \A p \in calcOut.map : /\ p.emoji \in ValidEmojiSet
                                  /\ p.user \in UsersOf(calcCache, p.emoji)
        /\ \A i \in DOMAIN calcOut.list : calcOut.list[i].emoji \in ValidEmojiSet
        /\ \A e \in Emojis :
              CountFor(calcOut.list, e) = Cardinality({p \in calcOut.map : p.emoji = e})

\* a user under two valid emoji and a reaction outside the valid set: the total is
\* below the sum of the raw counts
C9_Witness ==
    /\ calcOut # Null
    /\ \E u \in Qualifying : \A e \in ValidEmojiSet : u \in UsersOf(calcCache, e)
    /\ UsersOf(calcCache, "x") # {}
    /\ calculateTotalCount(calcOut.list) < RawValidCount
    /\ calculateTotalCount(calcOut.list) >= 2

\* the reaction cache without any reaction of user u
CacheWithout(cache, u) ==
    SelectSeq([i \in DOMAIN cache |-> [emoji |-> cache[i].emoji,
                                        users |-> cache[i].users \ {u}]],
              LAMBDA r : r.users # {})

\* C10: with excludeAuthor the author is attributed to no emoji and every emoji's
\* count and every other user's attribution are those of the same message without
\* the author's reactions; without excludeAuthor the author is attributed to exactly
\* one emoji if and only if the author reacted with a valid emoji.
C10_AuthorExclusion ==
    calcOut # Null =>
        IF calcExclude
        THEN LET without == CalculationRun(CacheWithout(calcCache, CalcAuthor),
                                           validReactions, FALSE, CalcAuthor)
             IN /\ \A p \in calcOut.map : p.user # CalcAuthor
                /\ calcOut.map = without.map
                /\ \A e \in Emojis : CountFor(calcOut.list, e) = CountFor(without.list, e)
                /\ calculateTotalCount(calcOut.list) = calculateTotalCount(without.list)
        ELSE /\ (CalcAuthor \in ReactedValid) =
                    (Cardinality({p \in calcOut.map : p.user = CalcAuthor}) = 1)
             /\ (CalcAuthor \notin ReactedValid) =>
                    (\A p \in calcOut.map : p.user # CalcAuthor)
             /\ calculateTotalCount(calcOut.list) = Cardinality(ReactedValid)

\* the author reacted first with a valid emoji that another user also used, and with
\* a second valid emoji, and is excluded
C10_Witness ==
    /\ calcOut # Null
    /\ calcExclude
    /\ Len(calcCache) >= 2
    /\ CalcAuthor \in calcCache[1].users
    /\ Cardinality(calcCache[1].users) >= 2
    /\ \A e \in ValidEmojiSet : CalcAuthor \in UsersOf(calcCache, e)
    /\ calculateTotalCount(calcOut.list) >= 1

\* the valid emoji user u reacted with
ValidEmojiOf(u) == {e \in ValidEmojiSet : u \in UsersOf(calcCache, e)}

\* the position of emoji e in a sequence of emoji
PositionIn(seq, e) == CHOOSE i \in DOMAIN seq : seq[i] = e

\* the position of emoji e among the reactions of the message
CachePosition(e) == CHOOSE i \in DOMAIN calcCache : calcCache[i].emoji = e

RefreshDone(t) == task[t].pc = "ref_done"

\* task t is a refresh that has just finished one entry without an error
EntryRefreshed(t) ==
    task[t].pc = "fin" /\ task[t].op = "refresh" /\ ~task[t].threw

\* C12: a refresh that ran alone and met no failed call counts every listed entry
\* once; removed is the number of listed entries whose source message is gone,
\* and those entries are no longer stored; refreshed is the number of the other
\* entries; an entry whose mirror message was missing is counted as refreshed
\* and points at the mirror message the refresh sent for it.
C12_RefreshCounts ==
    \A t \in Tasks :
       /\ (RefreshDone(t) /\ Undisturbed(t))
          => /\ task[t].refreshed + task[t].removed + task[t].errors = task[t].listed
             /\ task[t].removed = task[t].listed - Cardinality(store)
             /\ \A row \in store : row.messageId \in srcExists
             /\ task[t].errors = 0 => task[t].refreshed = Cardinality(store)
       /\ (EntryRefreshed(t) /\ Undisturbed(t))
          => IF task[t].msg \in srcExists
             THEN /\ task[t].outcome = "refreshed"
                  /\ \E row \in store :
                        /\ EntriesOf(t) = {row}
                        /\ row.id = task[t].entry.id
                        /\ row.fireboardMessageId =
                              IF task[t].fireboardMessage = 0
                              THEN task[t].entry.fireboardMessageId
                              ELSE task[t].fireboardMessage
                        /\ task[t].fireboardMessage # 0 =>
                              row.fireboardMessageId # task[t].entry.fireboardMessageId
             ELSE /\ task[t].outcome = "removed"
                  /\ EntriesOf(t) = {}

\* one stored entry whose mirror message was deleted: the refresh returns
\* refreshed 1, removed 0, and the entry points at a new mirror message
C12_Witness ==
    \E t \in Tasks :
       /\ RefreshDone(t) /\ Undisturbed(t)
       /\ task[t].listed = 1 /\ task[t].refreshed = 1 /\ task[t].removed = 0
       /\ task[t].sent = 1
       /\ \E row \in store :
             /\ store = {row}
             /\ row.fireboardMessageId = task[t].fireboardMessage
             /\ row.fireboardMessageId # InitEntry.fireboardMessageId
             /\ MirrorExists(row.fireboardMessageId)

\* the qualifying count of message m as the engine computes it from its reactions
CurrentTotal(m) ==
    calculateTotalCount(calculateValidReactions(reactions[m], validReactions,
                                                settings.excludeAuthorReactions,
                                                AuthorOf(m)))

\* C13: after a refresh that ran alone and met no failed call, no entry remains
\* whose source message exists and whose recomputed count is below the threshold.
C13_RefreshRequalifies ==
    \A t \in Tasks :
       (RefreshDone(t) /\ Undisturbed(t) /\ task[t].errors = 0)
       => \A row \in store :
             row.messageId \in srcExists
             => CurrentTotal(row.messageId) >= settings.threshold

(***************************************************************************)
(* Claims about the lock and the handlers' returns (checked under Spec)    *)
(***************************************************************************)
\* a reaction event for a message that is in the processing set is delivered
DroppedEvent ==
    /\ enabled
    /\ \E m \in Msgs : reactions'[m] # reactions[m] /\ m \in processingMessages

\* C14: a reaction event for a message in the processing set starts no pass,
\* recomputes nothing, changes neither the store nor the fireboard channel nor
\* the processing set; and a handler only ever starts with a newly delivered
\* event, so the dropped event is not replayed when the pass in flight ends.
C14_DroppedStep ==
    /\ DroppedEvent
       => /\ UNCHANGED <<store, mirror, nextMessageId, nextRowId, processingMessages>>
          /\ \A t \in Tasks :
                /\ task'[t].pc = task[t].pc
                /\ task'[t].validReactions = task[t].validReactions
    /\ \A t \in Tasks :
          (Idle(t) /\ task'[t].pc # "idle") => events' = events + 1

C14_DroppedNotQueued == [][C14_DroppedStep]_vars

\* an event was dropped during a pass that has finished, and the entry of the
\* message holds a count that is not the count of the message's reactions
C14_Witness ==
    \E t \in Tasks :
       /\ PassDone(t) /\ task[t].dropped /\ Undisturbed(t)
       /\ \E row \in EntriesOf(t) :
             row.validReactionCount # CurrentTotal(task[t].msg)

\* the messages of the passes in flight
InFlight == {task[t].msg : t \in {q \in Tasks : task[q].op \in PassOps}}

\* C15: the processing set holds exactly the messages of the passes in flight,
\* whether or not a call failed in a pass; with no pass in flight it is empty.
C15_LockedOnlyInFlight == processingMessages = InFlight

\* one reaction event was delivered, a call failed in its pass, the pass has
\* returned and the processing set is empty
C15_Witness ==
    /\ enabled
    /\ events = 1 /\ faults = 1
    /\ \E m \in Msgs : reactions[m] \notin InitCaches(m)
    /\ \A t \in Tasks : Idle(t)
    /\ processingMessages = {}

\* C16: handleReactionAdd and handleReactionRemove return false on every path,
\* a remote or store call failing during the pass included.
C16_ReturnsFalse ==
    \A t \in Tasks :
       (task[t].op \in PassOps /\ task[t].pc = "fin")
       => handleReactionSettles(t) = "false"

\* the reaction roles have returned to the router for the event of call h
RolesReturned(h) == handler[h].pc \in {"fireboard", "done"}

\* C17: for every reaction event the router calls the reaction roles first and
\* the fireboard afterwards exactly when the roles returned not-handled; the
\* roles return not-handled for every message other than the reaction-role
\* message, so each reaction on an ordinary message reaches the fireboard.
C17_RolesFirstThenFireboard ==
    \A h \in Handlers :
       /\ ~HandlerIdle(h) => Head(handler[h].calls) = "roles"
       /\ (~HandlerIdle(h) /\ ~RolesReturned(h)) => handler[h].calls = <<"roles">>
       /\ RolesReturned(h)
          => /\ handler[h].calls = IF handler[h].roleHandled
                                   THEN <<"roles">>
                                   ELSE <<"roles", "fireboard">>
             /\ handler[h].msg # roleMessageId => ~handler[h].roleHandled

\* a reaction on an ordinary message has been handed to the fireboard while
\* the reaction roles are enabled
C17_Witness ==
    \E h \in Handlers :
       /\ roleEnabled
       /\ handler[h].pc = "done"
       /\ handler[h].msg # roleMessageId
       /\ handler[h].calls = <<"roles", "fireboard">>

\* C18: with the reaction roles enabled, no event on the reaction-role message
\* is handed to the fireboard, whatever the outcome of the role handling.
C18_RoleMessageNeverReachesFireboard ==
    \A h \in Handlers :
       (roleEnabled /\ handler[h].msg = roleMessageId)
       => "fireboard" \notin Range(handler[h].calls)

\* the call of h ran with no failed call and no other call beside it, for a
\* member reacting with an emoji whose role exists on the reaction-role message
RoleCase(h) ==
    /\ roleEnabled
    /\ handler[h].pc = "done"
    /\ handler[h].msg = roleMessageId
    /\ handler[h].user \in members
    /\ handler[h].emoji \in DOMAIN roleEmojis
    /\ RoleOf(h) \in guildRoles
    /\ faults = 0
    /\ ~handler[h].overlapped

\* C19: after an add event the member has the mapped role and after a remove
\* event the member does not; the member's other roles are as they were; a
\* member already in the target state gets no role call, so the same event
\* processed again changes nothing.
C19_RoleFollowsReaction ==
    \A h \in Handlers :
       RoleCase(h)
       => LET u == handler[h].user
              role == RoleOf(h)
              had == role \in handler[h].before
          IN  /\ handler[h].roleHandled
              /\ (handler[h].action = "add") => role \in memberRoles[u]
              /\ (handler[h].action = "remove") => role \notin memberRoles[u]
              /\ memberRoles[u] \ {role} = handler[h].before \ {role}
              /\ handler[h].issued =
                    IF had = (handler[h].action = "add") THEN 0 ELSE 1

\* the add event of a role the member already holds beside another role has
\* been processed a second time
C19_Witness ==
    \E h \in Handlers :
       /\ RoleCase(h)
       /\ handler[h].action = "add"
       /\ RoleOf(h) \in handler[h].before
       /\ handler[h].before # {RoleOf(h)}
       /\ handler[h].issued = 0
       /\ events >= 2

\* C20: with the fireboard disabled no entry point changes an entry, sends,
\* edits or deletes a mirror message, or throws: reaction add and remove,
\* message delete, bulk delete and the startup refresh.
C20_DisabledStep ==
    ~enabled
    => /\ store' = store
       /\ nextMessageId' = nextMessageId
       /\ (task' # task) => mirror' = mirror
       /\ \A t \in Tasks : ~task'[t].threw
C20_DisabledIsNoOp == [][C20_DisabledStep]_vars

\* the handler of task t has run to its end and is about to return to its caller
HandlerOver(t) ==
    \/ task[t].pc = "fin" /\ task[t].op \in PassOps \cup {"delete"}
    \/ task[t].pc = "ref_done"

\* C21: no exception escapes handleReactionAdd, handleReactionRemove,
\* handleMessageDelete or refreshAllEntries, whichever remote or store call
\* failed during the operation.
C21_NoExceptionEscapes == \A t \in Tasks : HandlerOver(t) => ~task[t].threw

\* C22: once the fetch of the fireboard channel has failed in an operation on a
\* message, that operation creates, updates and deletes no entry and sends,
\* edits and deletes no mirror message.
C22_AbortedStep ==
    \A t \in Tasks :
       (task[t].channelFailed /\ task'[t] # task[t])
       => store' = store /\ mirror' = mirror
C22_ChannelFailureAborts == [][C22_AbortedStep]_vars

\* the last call of the store met a storage error
StoreFailed == dbCall # Null /\ dbCall.error

\* C23: a storage error surfaces as a value - none from get and createOrGet,
\* false from update and delete, the empty list from list, zero counts from
\* stats - and the stored entries are as they were before the failed call.
C23_StoreErrorsBecomeValues ==
    StoreFailed
    => /\ store = dbCall.before
       /\ dbCall.op \in {"getEntry", "createEntry"} => dbCall.result = Null
       /\ dbCall.op \in {"updateEntry", "deleteEntry", "deleteEntryObject"}
          => dbCall.result = FALSE
       /\ dbCall.op = "getAllEntries" => dbCall.result = <<>>
       /\ dbCall.op = "getStats"
          => dbCall.result = [totalEntries |-> 0, recentEntries |-> 0]

\* a delete by handle failed on a table that holds the row
C23_Witness ==
    /\ StoreFailed
    /\ dbCall.op = "deleteEntryObject"
    /\ \E r \in store : r.id = dbCall.id

\* a step of addToFireboard that sends a mirror message or inserts a row
AddActs(t) ==
    \/ task[t].pc = "add_send" /\ task'[t].pc = "add_find"
    \/ task[t].pc = "add_insert" /\ store' # store

\* C24: addToFireboard sends a mirror message or creates an entry only when the
\* total of the validReactions it was given reaches the threshold and no entry
\* for the message exists at that moment
C24_AddStep ==
    \A t \in Tasks :
       AddActs(t) => /\ Total(t) >= settings.threshold
                     /\ findOne(store, task[t].msg) = Null
C24_AddEnforcesBothChecks == [][C24_AddStep]_vars
\* C25: once a pass has removed a message's entry, no entry of that message carries
\* the removed entry's mirror message again and, no call having failed, that mirror
\* message is not left in the fireboard channel
C25_OldMirrorGone ==
    \A d \in {x \in retired : x.op \in PassOps} :
       /\ \A r \in store :
             r.messageId = d.messageId => r.fireboardMessageId # d.fireboardMessageId
       /\ faults = 0 => ~MirrorExists(d.fireboardMessageId)
\* the bulk-delete handler has visited its last message
BulkOver(t) == task[t].op = "bulk" /\ task[t].pc = "fin" /\ task[t].pending = <<>>

BulkMessages == UNION {Range(messages) : messages \in BulkInputs}

\* the messages of the batch that still have an entry, and the entries the
\* handler removed whose mirror message is still in the fireboard channel
EntryLeft == {m \in BulkMessages : findOne(store, m) # Null}
MirrorLeft == {d \in retired : d.op = "bulk" /\ MirrorExists(d.fireboardMessageId)}

\* a step of the bulk-delete handler on a message for which it found no entry
NoEntryStep(t) ==
    /\ task[t].op = "bulk" /\ task'[t] # task[t]
    /\ task[t].entry = Null /\ task'[t].entry = Null

\* C26: when the bulk-delete handler, running alone, has visited its batch, every
\* message of the batch has lost its entry and every removed entry its mirror
\* message, except at most one of them for each call that failed; and the handler's steps on a message
\* without an entry change neither the store nor the fireboard channel
C26_BulkVisited ==
    \A t \in Tasks :
       (BulkOver(t) /\ ~task[t].interfered)
          => Cardinality(EntryLeft) + Cardinality(MirrorLeft) <= faults
C26_NoEntryStep ==
    \A t \in Tasks : NoEntryStep(t) => store' = store /\ mirror' = mirror
C26_BulkDeleteRemovesEach == []C26_BulkVisited /\ [][C26_NoEntryStep]_vars

\* the first message's removal failed and the second message's entry is removed
C26_Witness ==
    \E t \in Tasks :
       /\ BulkOver(t) /\ ~task[t].interfered /\ faults = 1
       /\ findOne(store, "m2") # Null
       /\ task[t].msg = "m1" /\ task[t].entry # Null /\ task[t].result = "true"
       /\ EntryLeft = {"m2"} /\ MirrorLeft = {}
\* the mirror messages that show source message m
MirrorOf(channel, m) == {x \in channel : x.embed.source = m}

\* a step of a handler leaves the entries and the mirror messages of every message
\* other than the one it works on as they are
C27_FrameStep ==
    \A t \in Tasks :
       (~Idle(t) /\ task'[t] # task[t])
          => \A B \in Msgs \ {task[t].msg} :
                /\ EntriesFor(store', B) = EntriesFor(store, B)
                /\ MirrorOf(mirror', B) = MirrorOf(mirror, B)

\* a reaction event on a message that is not locked starts a pass on it
C27_LockStep ==
    \A B \in Msgs :
       (enabled /\ reactions'[B] # reactions[B] /\ B \notin processingMessages)
          => \E t \in Tasks :
                /\ Idle(t) /\ task'[t].pc = "fetch" /\ task'[t].msg = B
                /\ B \in processingMessages'

\* C27: handling an event for one source message never changes the entry or the
\* mirror message of another source message, and an event for a message is skipped
\* only when that same message is locked, whatever other messages are locked
C27_MessagesIndependent == [][C27_FrameStep /\ C27_LockStep]_vars

\* while m1 is locked and still being processed, a pass on m2 has run to its end
C27_Witness ==
    \E t, q \in Tasks :
       /\ processingMessages = {"m1", "m2"}
       /\ task[q].msg = "m1" /\ task[q].op \in PassOps /\ task[q].pc = "fetch"
       /\ task[t].msg = "m2" /\ task[t].op \in PassOps /\ task[t].pc = "fin"
       /\ task[t].result = "true"
\* the last store call met no storage error and found no row to act on
NoRowFor(ops) ==
    /\ dbCall # Null /\ ~dbCall.error
    /\ dbCall.op \in ops
    /\ IF dbCall.op = "deleteEntryObject"
       THEN \A r \in dbCall.before : r.id # dbCall.id
       ELSE EntriesFor(dbCall.before, dbCall.messageId) = {}

\* C28: a delete of an entry that is already gone, by its handle or by its message
\* id, returns a boolean (true by handle) and leaves the table as it was; an update
\* for a message id without a row returns false and leaves the table as it was
C28_DeleteIdempotent ==
    /\ NoRowFor({"deleteEntryObject", "deleteEntry", "updateEntry"})
          => store = dbCall.before /\ dbCall.result \in BOOLEAN
    /\ NoRowFor({"deleteEntryObject"}) => dbCall.result = TRUE
    /\ NoRowFor({"updateEntry"}) => dbCall.result = FALSE

\* a row created in this run was deleted, and is deleted by its handle once more
C28_Witness ==
    /\ NoRowFor({"deleteEntryObject"})
    /\ dbCall.id > InitEntry.id /\ dbCall.id < nextRowId
\* refreshMessage has returned status to the command
Returned(t, status) ==
    task[t].op = "refreshMessage" /\ task[t].pc = "status" /\ task[t].outcome = status

\* the entry of the call's message is the row it found, brought up to date
KeptAndRefreshed(t) ==
    LET entry == findOne(store, task[t].msg)
    IN /\ task[t].existingEntry # Null /\ entry # Null
       /\ entry.id = task[t].existingEntry.id
       /\ entry.validReactionCount = Total(t)
       /\ \E x \in mirror : x.id = entry.fireboardMessageId /\ x.embed.total = Total(t)

Holds(t, m) == task[t].msg = m /\ task[t].pc \in {"trk_body", "trk_finally"}

\* C30: in processReactionTracking a message id leaves processingMessages only in
\* the finally of the pass that added it, and at most one pass per message is
\* between adding the id and deleting it
C30_ReleaseStep ==
    \A m \in Msgs :
       (m \in processingMessages /\ m \notin processingMessages')
          => \E t \in Tasks : Holds(t, m) /\ task[t].pc = "trk_finally" /\ Idle(t)'
C30_OneHolder ==
    \A m \in Msgs : Cardinality({t \in Tasks : Holds(t, m)}) <= 1
C30_OnlyOwnerUnlocks == [][C30_ReleaseStep]_vars /\ []C30_OneHolder
\* C31: whenever no handler is in flight, every message of the fireboard channel is
\* the mirror message of exactly one entry
C31_NoOrphanMirror ==
    (faults = 0 /\ \A t \in Tasks : Idle(t))
       => \A x \in mirror :
             Cardinality({r \in store : r.fireboardMessageId = x.id}) = 1
\* C32: once the delete handler of a deleted message and every other handler have
\* returned, the message has no entry and no mirror message (no call failed)
C32_DeletedMessageGone ==
    \A m \in Msgs :
       (enabled /\ faults = 0 /\ m \notin srcExists /\ \A t \in Tasks : Idle(t))
          => /\ \A r \in store : r.messageId # m
             /\ \A x \in mirror : x.embed.source # m
\* the rows of rows2 whose id no row of rows1 has
Created(rows1, rows2) == {r \in rows2 : \A q \in rows1 : q.id # r.id}

C33_RemoveStep ==
    \A t \in Tasks :
       (task[t].op = "remove" /\ task'[t] # task[t])
          => /\ Created(store, store') = {}
             /\ task[t].existingEntry = Null => (store' = store /\ mirror' = mirror)

\* C33: no step of a reaction-remove pass creates an entry, and a remove pass that
\* found no entry changes neither the store nor the mirror channel, whatever the count
C33_RemoveNeverCreates == [][C33_RemoveStep]_vars

C33_Witness ==
    \E t \in Tasks :
       /\ task[t].op = "remove" /\ task[t].pc = "fin"
       /\ task[t].existingEntry = Null
       /\ Total(t) >= settings.threshold
       /\ findOne(store, task[t].msg) = Null
\* C34: for the same message and settings the total of the refresh path
\* (_getValidReactions) equals the total of the event path (calculateValidReactions)
C34_RefreshTotalEqualsEventTotal ==
    calcOut # Null
       => calculateTotalCount(getValidReactions(calcCache, validReactions,
                                                calcExclude, CalcAuthor))
             = calculateTotalCount(calcOut.list)

\* task t is inside a call of addToFireboard: its caller found no entry
InAddToFireboard(t) ==
    /\ task[t].op \in {"add", "manual"}
    /\ task[t].existingEntry = Null
    /\ task[t].pc \in {"add_get", "add_send", "add_find", "add_insert", "add_refind",
                       "upd_fetch", "upd_edit", "upd_count", "rec_send", "rec_update"}

C35_TrueStep ==
    \A t \in Tasks :
       (InAddToFireboard(t) /\ task'[t].pc = "fin" /\ task'[t].result = "true")
          => findOne(store', task[t].msg) # Null

C35_FalseStep ==
    \A t \in Tasks :
       (InAddToFireboard(t) /\ task'[t].pc = "fin" /\ task[t].fireboardMessage # 0
          /\ findOne(store', task[t].msg) = Null)
          => task'[t].result = "false"

\* C35: addToFireboard returns true only if an entry for the message is in the store
\* when it returns, and returns false whenever it sent the mirror message and the
\* entry was not stored (in runs where no call fails)
C35_AddResultMatchesStore ==
    [][faults' = 0 => (C35_TrueStep /\ C35_FalseStep)]_vars

\* the loop of the refresh counts the entry task t has just processed
Counting(t) ==
    /\ task[t].op = "refresh" /\ task[t].pc = "fin"
    /\ task'[t] # task[t]

C36_CountStep ==
    \A t \in Tasks :
       Counting(t)
          => /\ task'[t].removed > task[t].removed
                   => \A r \in store : r.id # task[t].entry.id
             /\ task[t].threw
                   => /\ task'[t].removed = task[t].removed
                      /\ task'[t].refreshed = task[t].refreshed

\* C36: the refresh counts an entry as removed only when it is gone from the store,
\* and an entry whose processing failed with an error is counted neither as removed
\* nor as refreshed
C36_CountsOnlySuccesses == [][C36_CountStep]_vars

\* C37: once initialize has found the configured reaction-role message missing and
\* has sent a new one, this.settings.messageId is the id of the new message and a reaction event on it is declared handled
C37_NewMessageClaimed ==
    (roleSetup.pc = "ready" /\ roleSetup.missing /\ roleSetup.created)
       => /\ roleSetup.settingsMessageId = roleSetup.message
          /\ roleSetup.reacted = roleSetup.message => roleSetup.claimed = "handled"

C38_BotHandled ==
    \A h \in Handlers :
       handler[h].user \in Bots
          => /\ (roleEnabled /\ handler[h].msg = roleMessageId)
                   => /\ handler[h].pc = "done"
                      /\ handler[h].roleHandled
                      /\ handler[h].calls = <<"roles">>
                      /\ handler[h].issued = 0
             /\ handler[h].msg # roleMessageId
                   => /\ ~handler[h].roleHandled
                      /\ handler[h].calls = <<"roles", "fireboard">>

\* no step of a call made for a bot's reaction changes a member's roles
C38_BotStep ==
    \A h \in Handlers :
       (handler'[h] # handler[h] /\ handler'[h].user \in Bots)
          => memberRoles' = memberRoles

\* C38: a bot's reaction on the reaction-role message (roles enabled) is declared
\* handled at once, issues no role call, changes no member's roles and is not handed
\* to the fireboard; a bot's reaction on any other message is declared not handled
\* and handed to the fireboard
C38_BotReaction == []C38_BotHandled /\ [][C38_BotStep]_vars

C38_Witness ==
    \E h, g \in Handlers :
       /\ roleEnabled
       /\ handler[h].user \in Bots /\ handler[h].msg = roleMessageId
       /\ handler[h].pc = "done"
       /\ handler[g].user \in Bots /\ handler[g].msg # roleMessageId
       /\ handler[g].pc = "done"

\* the count of the entry of the last call's message, before the call and now
CountBefore == findOne(dbCall.before, dbCall.messageId).validReactionCount
CountNow == findOne(store, dbCall.messageId).validReactionCount

\* C39: the validReactionCount of every stored entry is a natural number after any
\* sequence of create, update, increment and decrement calls with non-negative
\* arguments, and a decrement by more than the stored count leaves 0
C39_CountNeverNegative ==
    /\ \A r \in store : r.validReactionCount \in Nat
    /\ (dbCall # Null /\ ~dbCall.error /\ dbCall.op = "decrementValidReactionCount"
           /\ Affected(dbCall.before, dbCall.messageId))
          => CountNow = IF CountBefore >= dbCall.amount
                        THEN CountBefore - dbCall.amount ELSE 0

C39_Witness ==
    /\ dbCall # Null /\ ~dbCall.error /\ dbCall.op = "decrementValidReactionCount"
    /\ Affected(dbCall.before, dbCall.messageId)
    /\ CountBefore > 0 /\ dbCall.amount > CountBefore
    /\ CountNow = 0
    /\ findOne(dbCall.before, dbCall.messageId).id > InitEntry.id
====
